---- MODULE Spec2Model ----
(***************************************************************************)
(* Traffic simulation engine of src/hooks/useTrafficSimulation.ts.         *)
(*                                                                         *)
(* Lengths are fixed-point numbers with one decimal digit (PX units per    *)
(* pixel), because the weather multipliers of moveVehicles have one        *)
(* decimal digit; vehicle speeds are drawn from whole pixels per tick.     *)
(* One interval callback (a tick) is one atomic action: the calls of the   *)
(* callback take effect in program order, the state updaters receive the   *)
(* latest state, and the values the callbacks closed over (vehicles,       *)
(* weather) are those of the last render, i.e. of the state before the     *)
(* tick.  The light objects are mutated in place by updateLights, so the   *)
(* intersections moveVehicles closed over show the lights of this tick.    *)
(***************************************************************************)
EXTENDS Integers, Sequences, FiniteSets, TLC

\* ------------------------------------------------------------------------
\* Program constants
\* ------------------------------------------------------------------------
GRID_SIZE == 3
LANE_WIDTH == 50
INTERSECTION_SIZE == 100
CELL_SIZE == LANE_WIDTH * 2 + INTERSECTION_SIZE
TICKS_PER_SECOND == 10
INITIAL_LIGHT_DURATION == 2 * TICKS_PER_SECOND
YELLOW_LIGHT_DURATION == TICKS_PER_SECOND \div 2
JAM_VEHICLE_THRESHOLD == 3
JAM_STOPPED_RATIO_PERCENT == 66
COLLISION_FLASH_DURATION_TICKS == 1 * TICKS_PER_SECOND
COLLISION_THRESHOLD == 15
SAFETY_DISTANCE == 20
SAFETY_DISTANCE_BUS == 30
MANUAL_TIMER == 999
SPAWN_INTERVAL_S == 5
SPAWN_OFFSET == 20
EXIT_MARGIN == 50
CENTER_RADIUS == 15
APPROACH_ZONE == 10
VEHICLE_CAP == 50
LOG_LIMIT == 100
HISTORY_LIMIT == 50
PX == 10

\* ------------------------------------------------------------------------
\* Bounds of the model
\* ------------------------------------------------------------------------
MaxTick == 26
MaxCmds == 2
MaxRunToggles == 1
MaxTickMove == 82
MaxJamChecks == 1
MaxJamVehicles == 4
MaxCoord == 3
MaxTickSouth == 72
MaxTickOrder == 72
MaxTickPause == 8
MaxPauseToggles == 3
MaxTickCap == 551
MaxQueueShort == 3
MaxSpawnEvents == 2
MaxTickExit == 202
MaxActivateTick == 8
MaxTickCross == 64
MaxTickToggle == 58
MaxToggles == 3
MaxJamSeq == 5
MaxTickWeather == 66
MaxWeatherCmds == 1

\* ------------------------------------------------------------------------
\* Values
\* ------------------------------------------------------------------------
RED == "RED"
YELLOW == "YELLOW"
GREEN == "GREEN"
NoDir == "null"
Directions == {"N", "S", "E", "W"}
CAR == "CAR"
BIKE == "BIKE"
BUS == "BUS"
None == <<>>
Some(x) == <<x>>
IsSome(o) == Len(o) > 0
Val(o) == o[1]

Cell(gx, gy) == [gridX |-> gx, gridY |-> gy]
InGrid(c) == c.gridX >= 0 /\ c.gridX < GRID_SIZE /\ c.gridY >= 0 /\ c.gridY < GRID_SIZE
Abs(n) == IF n < 0 THEN -n ELSE n
Min(a, b) == IF a < b THEN a ELSE b
Max(a, b) == IF a > b THEN a ELSE b
Manhattan(a, b) == Abs(a.gridX - b.gridX) + Abs(a.gridY - b.gridY)
IntersectionIds == 0 .. (GRID_SIZE * GRID_SIZE - 1)

\* ------------------------------------------------------------------------
\* findPath (A* over the grid).  nodes is the Map (a function on the keys
\* it holds), openSet the Set in insertion order, as JavaScript iterates it.
\* ------------------------------------------------------------------------
NoParent == Cell(-9, -9)

Node(g, h, parent) == [g |-> g, h |-> h, f |-> g + h, parent |-> parent]

AStarInit(start, end) ==
    [start |-> start, end |-> end,
     nodes |-> (start :> Node(0, Manhattan(start, end), NoParent)),
     openSet |-> <<start>>,
     done |-> FALSE, result |-> <<>>]

\* the first key of openSet with the least f (lines 36-41)
RECURSIVE PickCurrent(_, _, _, _)
PickCurrent(nodes, openSet, k, cur) ==
    IF k > Len(openSet) THEN cur
    ELSE PickCurrent(nodes, openSet, k + 1,
                     IF nodes[openSet[k]].f < nodes[cur].f THEN openSet[k] ELSE cur)

\* the parent chain from a key back to the start, start first (lines 44-50)
RECURSIVE Reconstruct(_, _, _)
Reconstruct(nodes, key, acc) ==
    IF key = NoParent THEN acc
    ELSE Reconstruct(nodes, nodes[key].parent, <<key>> \o acc)

Neighbors(c) ==
    SelectSeq(<<Cell(c.gridX + 1, c.gridY), Cell(c.gridX - 1, c.gridY),
                Cell(c.gridX, c.gridY + 1), Cell(c.gridX, c.gridY - 1)>>, InGrid)

RemoveKey(s, key) == SelectSeq(s, LAMBDA e : e # key)
HasKey(s, key) == \E i \in 1 .. Len(s) : s[i] = key

\* the neighbor loop of one expansion (lines 65-77)
RECURSIVE Relax(_, _, _, _, _, _)
Relax(nodes, openSet, ns, k, cur, end) ==
    IF k > Len(ns) THEN [nodes |-> nodes, openSet |-> openSet]
    ELSE LET n == ns[k]
             gScore == nodes[cur].g + 1
             hScore == Manhattan(n, end)
             fScore == gScore + hScore
         IN  IF n \notin DOMAIN nodes \/ fScore < nodes[n].f
             THEN Relax((n :> Node(gScore, hScore, cur)) @@ nodes,
                        IF HasKey(openSet, n) THEN openSet ELSE Append(openSet, n),
                        ns, k + 1, cur, end)
             ELSE Relax(nodes, openSet, ns, k + 1, cur, end)

\* one iteration that returns the whole parent chain, start cell included
AStarStep_Mut(st) ==
    IF Len(st.openSet) = 0
    THEN [st EXCEPT !.done = TRUE, !.result = <<>>]
    ELSE LET cur == PickCurrent(st.nodes, st.openSet, 1, st.openSet[1])
         IN  IF cur = st.end
             THEN [st EXCEPT !.done = TRUE,
                             !.result = Reconstruct(st.nodes, cur, <<>>)]
             ELSE LET r == Relax(st.nodes, RemoveKey(st.openSet, cur),
                                 Neighbors(cur), 1, cur, st.end)
                  IN  [st EXCEPT !.nodes = r.nodes, !.openSet = r.openSet]

\* one iteration that leaves the expanded key in openSet
AStarStep_NoDelete(st) ==
    IF Len(st.openSet) = 0
    THEN [st EXCEPT !.done = TRUE, !.result = <<>>]
    ELSE LET cur == PickCurrent(st.nodes, st.openSet, 1, st.openSet[1])
         IN  IF cur = st.end
             THEN [st EXCEPT !.done = TRUE,
                             !.result = Tail(Reconstruct(st.nodes, cur, <<>>))]
             ELSE LET r == Relax(st.nodes, st.openSet, Neighbors(cur), 1, cur, st.end)
                  IN  [st EXCEPT !.nodes = r.nodes, !.openSet = r.openSet]

\* one iteration of the while loop (lines 35-78), or the final return (79)
AStarStep(st) ==
    IF Len(st.openSet) = 0
    THEN [st EXCEPT !.done = TRUE, !.result = <<>>]
    ELSE LET cur == PickCurrent(st.nodes, st.openSet, 1, st.openSet[1])
         IN  IF cur = st.end
             THEN [st EXCEPT !.done = TRUE,
                             !.result = Tail(Reconstruct(st.nodes, cur, <<>>))]
             ELSE LET r == Relax(st.nodes, RemoveKey(st.openSet, cur),
                                 Neighbors(cur), 1, cur, st.end)
                  IN  [st EXCEPT !.nodes = r.nodes, !.openSet = r.openSet]

RECURSIVE AStarRun(_)
AStarRun(st) == IF st.done THEN st.result ELSE AStarRun(AStarStep(st))

findPath(start, end) == AStarRun(AStarInit(start, end))

\* ------------------------------------------------------------------------
\* State
\* ------------------------------------------------------------------------
VARIABLES isRunning, weather, logs, jammedSegments, intersections, vehicles,
          stats, simulationTick, vehicleIdCounter, vehicleThroughput,
          previousJams, collidedPairs, fp, cmds, runToggles

vars == <<isRunning, weather, logs, jammedSegments, intersections, vehicles,
          stats, simulationTick, vehicleIdCounter, vehicleThroughput,
          previousJams, collidedPairs, fp, cmds, runToggles>>

Light(state, timer) == [state |-> state, timer |-> timer]

\* lights[1..4] are lights[0..3] of the source: N, S, E, W
LightIndex(d) == CASE d = "N" -> 1 [] d = "S" -> 2 [] d = "E" -> 3 [] d = "W" -> 4

InitialIntersections ==
    [i \in IntersectionIds |->
        [id |-> i,
         lights |-> <<Light(IF i % 2 = 0 THEN GREEN ELSE RED, INITIAL_LIGHT_DURATION),
                      Light(IF i % 2 = 0 THEN GREEN ELSE RED, INITIAL_LIGHT_DURATION),
                      Light(IF i % 2 = 0 THEN RED ELSE GREEN, INITIAL_LIGHT_DURATION),
                      Light(IF i % 2 = 0 THEN RED ELSE GREEN, INITIAL_LIGHT_DURATION)>>,
         manualOverride |-> FALSE,
         emergencyOverrideFor |-> NoDir]]

InitialStats ==
    [totalCars |-> 0, movingCars |-> 0, averageWaitTime |-> [num |-> 0, den |-> 1],
     emergencyActive |-> FALSE, historicalWaitTime |-> <<>>,
     trafficDensity |-> <<>>,
     vehicleThroughput |-> 0, totalIdleTime |-> 0, sensorAccuracy |-> 100,
     vehicleCounts |-> [cars |-> 0, bikes |-> 0, buses |-> 0]]

\* ------------------------------------------------------------------------
\* Log
\* ------------------------------------------------------------------------
Entry(message, a, b, type) == [message |-> message, a |-> a, b |-> b, type |-> type]

\* addLog: newest first, at most LOG_LIMIT entries (the wall-clock
\* timestamp of an entry is not part of the state)
addLog(lg, e) == SubSeq(<<e>> \o lg, 1, Min(LOG_LIMIT, Len(lg) + 1))

RECURSIVE addLogs(_, _)
addLogs(lg, es) == IF Len(es) = 0 THEN lg ELSE addLogs(addLog(lg, Head(es)), Tail(es))

\* ------------------------------------------------------------------------
\* IntersectionController
\* ------------------------------------------------------------------------
SetStates(L, ns, ew) ==
    <<[L[1] EXCEPT !.state = ns], [L[2] EXCEPT !.state = ns],
      [L[3] EXCEPT !.state = ew], [L[4] EXCEPT !.state = ew]>>

\* the automatic branch of updateLights (lines 146-177)
AutoLights(L) ==
    LET t0 == L[1].timer - 1
        needsSwitch == t0 <= 0
        L1 == [i \in 1 .. 4 |-> Light(L[i].state, t0)]
    IN  IF needsSwitch
        THEN IF L1[1].state = GREEN
             THEN <<Light(YELLOW, YELLOW_LIGHT_DURATION), Light(YELLOW, YELLOW_LIGHT_DURATION),
                    L1[3], L1[4]>>
             ELSE <<L1[1], L1[2],
                    Light(YELLOW, YELLOW_LIGHT_DURATION), Light(YELLOW, YELLOW_LIGHT_DURATION)>>
        ELSE IF t0 = INITIAL_LIGHT_DURATION - YELLOW_LIGHT_DURATION /\ L1[1].state = YELLOW
             THEN LET wasNSGreen == L1[3].state = RED
                  IN  IF wasNSGreen
                      THEN [i \in 1 .. 4 |-> Light(IF i <= 2 THEN RED ELSE GREEN,
                                                   INITIAL_LIGHT_DURATION)]
                      ELSE [i \in 1 .. 4 |-> Light(IF i <= 2 THEN GREEN ELSE RED,
                                                   INITIAL_LIGHT_DURATION)]
             ELSE L1

\* updateLights with the override branch counting the timers down as well
UpdateLight_Mut(int) ==
    IF int.manualOverride THEN int
    ELSE IF int.emergencyOverrideFor # NoDir
    THEN LET dir == int.emergencyOverrideFor
             ns == IF dir = "N" \/ dir = "S" THEN GREEN ELSE RED
             ew == IF dir = "E" \/ dir = "W" THEN GREEN ELSE RED
             L == SetStates(int.lights, ns, ew)
         IN  [int EXCEPT !.lights = [k \in 1 .. 4 |-> Light(L[k].state, L[k].timer - 1)]]
    ELSE [int EXCEPT !.lights = AutoLights(int.lights)]

\* updateLights for one intersection (lines 133-178)
UpdateLight(int) ==
    IF int.manualOverride THEN int
    ELSE IF int.emergencyOverrideFor # NoDir
    THEN LET dir == int.emergencyOverrideFor
             ns == IF dir = "N" \/ dir = "S" THEN GREEN ELSE RED
             ew == IF dir = "E" \/ dir = "W" THEN GREEN ELSE RED
         IN  [int EXCEPT !.lights = SetStates(int.lights, ns, ew)]
    ELSE [int EXCEPT !.lights = AutoLights(int.lights)]

updateLights(ints) == [i \in IntersectionIds |-> UpdateLight(ints[i])]

\* setLightStateManually, the state updater (lines 598-618)
\* the updater applying an id outside the grid to the id modulo the grid
ManualLights_Mut(ints, intersectionId, direction) ==
    [i \in IntersectionIds |->
        IF ints[i].id = intersectionId % (GRID_SIZE * GRID_SIZE)
        THEN LET ns == IF direction = "NS" THEN GREEN ELSE RED
                 ew == IF direction = "NS" THEN RED ELSE GREEN
                 L == SetStates(ints[i].lights, ns, ew)
             IN  [ints[i] EXCEPT !.lights = [k \in 1 .. 4 |-> Light(L[k].state, MANUAL_TIMER)],
                                 !.manualOverride = TRUE]
        ELSE ints[i]]

ManualLights(ints, intersectionId, direction) ==
    [i \in IntersectionIds |->
        IF ints[i].id = intersectionId
        THEN LET ns == IF direction = "NS" THEN GREEN ELSE RED
                 ew == IF direction = "NS" THEN RED ELSE GREEN
                 L == SetStates(ints[i].lights, ns, ew)
             IN  [ints[i] EXCEPT !.lights = [k \in 1 .. 4 |-> Light(L[k].state, MANUAL_TIMER)],
                                 !.manualOverride = TRUE]
        ELSE ints[i]]

\* returnToAuto with the timers reset to the yellow duration
AutoReturn_Mut(ints, intersectionId) ==
    [i \in IntersectionIds |->
        IF ints[i].id = intersectionId
        THEN [ints[i] EXCEPT !.lights = [k \in 1 .. 4 |->
                                            Light(ints[i].lights[k].state, YELLOW_LIGHT_DURATION)],
                             !.manualOverride = FALSE]
        ELSE ints[i]]

\* returnToAuto, the state updater (lines 623-631)
AutoReturn(ints, intersectionId) ==
    [i \in IntersectionIds |->
        IF ints[i].id = intersectionId
        THEN [ints[i] EXCEPT !.lights = [k \in 1 .. 4 |->
                                            Light(ints[i].lights[k].state, INITIAL_LIGHT_DURATION)],
                             !.manualOverride = FALSE]
        ELSE ints[i]]

\* ------------------------------------------------------------------------
\* EmergencyCoordinator
\* ------------------------------------------------------------------------
Floor(p) == p \div (CELL_SIZE * PX)
GridCell(v) == Cell(Floor(v.x), Floor(v.y))

\* Array.findIndex on a path, 0-based, -1 when absent
RECURSIVE FindIndexFrom(_, _, _)
FindIndexFrom(path, c, k) ==
    IF k > Len(path) THEN -1
    ELSE IF path[k] = c THEN k - 1 ELSE FindIndexFrom(path, c, k + 1)
findIndex(path, c) == FindIndexFrom(path, c, 1)

StepDir(dx, dy, default) ==
    IF dx > 0 THEN "E" ELSE IF dx < 0 THEN "W"
    ELSE IF dy > 0 THEN "S" ELSE IF dy < 0 THEN "N" ELSE default

\* vehicles.find(v => v.isEmergency): 0 when there is none
RECURSIVE FirstEmergency(_, _)
FirstEmergency(vs, k) ==
    IF k > Len(vs) THEN 0 ELSE IF vs[k].isEmergency THEN k ELSE FirstEmergency(vs, k + 1)

\* the Map newOverrides after the loop of lines 449-465 (later set wins)
RECURSIVE Overrides(_, _, _, _, _, _)
Overrides(path, cur, dir, i, last, acc) ==
    IF i >= last THEN acc
    ELSE LET node == path[i + 1]
             prevNode == IF i > 0 THEN path[i] ELSE cur
             approachDir == StepDir(node.gridX - prevNode.gridX,
                                    node.gridY - prevNode.gridY, dir)
         IN  Overrides(path, cur, dir, i + 1, last,
                       ((node.gridY * GRID_SIZE + node.gridX) :> approachDir) @@ acc)

\* prioritizeEmergencyPath (lines 434-472) on the vehicles of the last render
prioritizeEmergencyPath(vs, ints) ==
    LET k == FirstEmergency(vs, 1)
    IN  IF k = 0 \/ ~IsSome(vs[k].path)
        THEN [i \in IntersectionIds |-> [ints[i] EXCEPT !.emergencyOverrideFor = NoDir]]
        ELSE LET ev == vs[k]
                 path == Val(ev.path)
                 cur == GridCell(ev)
                 currentPathIndex == findIndex(path, cur)
                 newOverrides == Overrides(path, cur, ev.direction, currentPathIndex + 1,
                                           Min(Len(path), currentPathIndex + 3),
                                           <<>>)
             IN  [i \in IntersectionIds |->
                    [ints[i] EXCEPT !.emergencyOverrideFor =
                        IF ints[i].id \in DOMAIN newOverrides
                        THEN newOverrides[ints[i].id] ELSE NoDir]]

\* ------------------------------------------------------------------------
\* VehicleKinematics
\* ------------------------------------------------------------------------
Vehicle(id, type, x, y, direction, speed) ==
    [id |-> id, type |-> type, x |-> x, y |-> y, direction |-> direction,
     speed |-> speed, stopped |-> FALSE, waitTime |-> 0, isEmergency |-> FALSE,
     destination |-> None, path |-> None, collisionTimestamp |-> None]

\* the multiplier that slows a bike in rain no more than the other vehicles
getWeatherMultiplier_Mut(w, vehicleType) ==
    CASE w = "Rain" -> 7
      [] w = "Fog" -> IF vehicleType = BIKE THEN 3 ELSE 4
      [] OTHER -> 10

\* getWeatherMultiplier, in tenths (lines 231-241)
getWeatherMultiplier(w, vehicleType) ==
    CASE w = "Rain" -> IF vehicleType = BIKE THEN 5 ELSE 7
      [] w = "Fog" -> IF vehicleType = BIKE THEN 3 ELSE 4
      [] OTHER -> 10

\* Math.hypot(ax - bx, ay - by) < d pixels
Closer(ax, ay, bx, by, d) ==
    (ax - bx) * (ax - bx) + (ay - by) * (ay - by) < (d * PX) * (d * PX)

\* lines 278-287
isNearIntersection(pos, axis, direction) ==
    LET posInCell == pos % (CELL_SIZE * PX)
        lo == (CELL_SIZE - INTERSECTION_SIZE - LANE_WIDTH) * PX
        hi == (INTERSECTION_SIZE + LANE_WIDTH) * PX
    IN  IF axis = "x"
        THEN \/ direction = "E" /\ posInCell > lo - APPROACH_ZONE * PX /\ posInCell < lo
             \/ direction = "W" /\ posInCell < hi /\ posInCell > hi - APPROACH_ZONE * PX
        ELSE \/ direction = "S" /\ posInCell > lo - APPROACH_ZONE * PX /\ posInCell < lo
             \/ direction = "N" /\ posInCell < hi /\ posInCell > hi - APPROACH_ZONE * PX

\* the collision flag is dropped once the flash duration has passed (247-250)
ClearFlag(v, tick) ==
    IF /\ IsSome(v.collisionTimestamp)
       /\ Val(v.collisionTimestamp) # 0
       /\ tick - Val(v.collisionTimestamp) > COLLISION_FLASH_DURATION_TICKS
    THEN [v EXCEPT !.collisionTimestamp = None]
    ELSE v

\* emergency routing: the heading at the centre of a cell (lines 255-276)
Reroute(v) ==
    IF v.isEmergency /\ IsSome(v.path) /\ Len(Val(v.path)) > 0
    THEN LET c == GridCell(v)
             path == Val(v.path)
             cx == (c.gridX * CELL_SIZE + INTERSECTION_SIZE \div 2) * PX
             cy == (c.gridY * CELL_SIZE + INTERSECTION_SIZE \div 2) * PX
             idx == findIndex(path, c)
         IN  IF Closer(v.x, v.y, cx, cy, CENTER_RADIUS) /\ idx # -1 /\ idx + 1 < Len(path)
             THEN [v EXCEPT !.direction =
                      StepDir(path[idx + 2].gridX - c.gridX, path[idx + 2].gridY - c.gridY,
                              v.direction)]
             ELSE v
    ELSE v

\* the signal part stopping at Green instead of Red
SignalStop_Mut(v, ints) ==
    LET c == GridCell(v)
    IN  /\ InGrid(c)
        /\ isNearIntersection(v.x, "x", v.direction) \/ isNearIntersection(v.y, "y", v.direction)
        /\ LET light == ints[c.gridY * GRID_SIZE + c.gridX].lights[LightIndex(v.direction)]
           IN  light.state = GREEN \/ light.state = YELLOW

\* the signal test holding a vehicle at red only
SignalStop_RedOnly(v, ints) ==
    LET c == GridCell(v)
    IN  /\ InGrid(c)
        /\ isNearIntersection(v.x, "x", v.direction) \/ isNearIntersection(v.y, "y", v.direction)
        /\ LET light == ints[c.gridY * GRID_SIZE + c.gridX].lights[LightIndex(v.direction)]
           IN  light.state = RED

\* the signal part of the stop decision (lines 291-302)
SignalStop(v, ints) ==
    LET c == GridCell(v)
    IN  /\ InGrid(c)
        /\ isNearIntersection(v.x, "x", v.direction) \/ isNearIntersection(v.y, "y", v.direction)
        /\ LET light == ints[c.gridY * GRID_SIZE + c.gridX].lights[LightIndex(v.direction)]
           IN  light.state = RED \/ light.state = YELLOW

\* the vehicle-ahead part of the stop decision (lines 304-317)
AheadStop(v, prevVehicles) ==
    \E k \in 1 .. Len(prevVehicles) :
        LET o == prevVehicles[k]
        IN  /\ o.id # v.id
            /\ Closer(v.x, v.y, o.x, o.y,
                      IF v.type = BUS THEN SAFETY_DISTANCE_BUS ELSE SAFETY_DISTANCE)
            /\ \/ v.direction = "N" /\ v.y > o.y
               \/ v.direction = "S" /\ v.y < o.y
               \/ v.direction = "E" /\ v.x < o.x
               \/ v.direction = "W" /\ v.x > o.x

\* the first pass counting a tick of waiting for a moving vehicle too
MoveOne_Mut(vehicle, prevVehicles, ints, tick, w) ==
    LET v == Reroute(ClearFlag(vehicle, tick))
        stop == SignalStop(v, ints) \/ AheadStop(v, prevVehicles)
        stopped == stop /\ ~v.isEmergency
        effectiveSpeed == v.speed * getWeatherMultiplier(w, v.type)
    IN  IF stopped
        THEN [v EXCEPT !.stopped = TRUE, !.waitTime = v.waitTime + 1]
        ELSE [v EXCEPT !.stopped = FALSE, !.waitTime = v.waitTime + 1,
                       !.x = CASE v.direction = "E" -> v.x + effectiveSpeed
                               [] v.direction = "W" -> v.x - effectiveSpeed
                               [] OTHER -> v.x,
                       !.y = CASE v.direction = "N" -> v.y - effectiveSpeed
                               [] v.direction = "S" -> v.y + effectiveSpeed
                               [] OTHER -> v.y]

\* the first pass of moveVehicles for one vehicle (lines 244-333)
MoveOne(vehicle, prevVehicles, ints, tick, w) ==
    LET v == Reroute(ClearFlag(vehicle, tick))
        stop == SignalStop(v, ints) \/ AheadStop(v, prevVehicles)
        stopped == stop /\ ~v.isEmergency
        effectiveSpeed == v.speed * getWeatherMultiplier(w, v.type)
    IN  IF stopped
        THEN [v EXCEPT !.stopped = TRUE, !.waitTime = v.waitTime + 1]
        ELSE [v EXCEPT !.stopped = FALSE,
                       !.x = CASE v.direction = "E" -> v.x + effectiveSpeed
                               [] v.direction = "W" -> v.x - effectiveSpeed
                               [] OTHER -> v.x,
                       !.y = CASE v.direction = "N" -> v.y - effectiveSpeed
                               [] v.direction = "S" -> v.y + effectiveSpeed
                               [] OTHER -> v.y]

\* ------------------------------------------------------------------------
\* CollisionDetector: the scan of lines 336-363 over the pairs i < j.
\* pairs lists the matched pairs of ids in the order they were found.
\* ------------------------------------------------------------------------
Matched(pairs) == {pairs[k][1] : k \in 1 .. Len(pairs)} \cup {pairs[k][2] : k \in 1 .. Len(pairs)}

\* the scan that marks only the first vehicle of a pair
RECURSIVE CollisionScan_Mut(_, _, _, _, _)
CollisionScan_Mut(vs, i, j, pairs, tick) ==
    IF i > Len(vs) THEN [vehicles |-> vs, pairs |-> pairs]
    ELSE IF j > Len(vs) THEN CollisionScan_Mut(vs, i + 1, i + 2, pairs, tick)
    ELSE LET a == vs[i]
             b == vs[j]
         IN  IF a.id \in Matched(pairs) \/ b.id \in Matched(pairs)
             THEN CollisionScan_Mut(vs, i, j + 1, pairs, tick)
             ELSE IF Closer(a.x, a.y, b.x, b.y, COLLISION_THRESHOLD)
             THEN CollisionScan_Mut(
                     [vs EXCEPT ![i] = [a EXCEPT !.collisionTimestamp = Some(tick),
                                                 !.stopped = TRUE]],
                     i, j + 1, Append(pairs, <<a.id, b.id>>), tick)
             ELSE CollisionScan_Mut(vs, i, j + 1, pairs, tick)

\* the scan that does not skip a vehicle already matched
RECURSIVE CollisionScan_NoSkip(_, _, _, _, _)
CollisionScan_NoSkip(vs, i, j, pairs, tick) ==
    IF i > Len(vs) THEN [vehicles |-> vs, pairs |-> pairs]
    ELSE IF j > Len(vs) THEN CollisionScan_NoSkip(vs, i + 1, i + 2, pairs, tick)
    ELSE LET a == vs[i]
             b == vs[j]
         IN  IF Closer(a.x, a.y, b.x, b.y, COLLISION_THRESHOLD)
             THEN CollisionScan_NoSkip(
                     [vs EXCEPT ![i] = [a EXCEPT !.collisionTimestamp = Some(tick),
                                                 !.stopped = TRUE],
                                ![j] = [b EXCEPT !.collisionTimestamp = Some(tick),
                                                 !.stopped = TRUE]],
                     i, j + 1, Append(pairs, <<a.id, b.id>>), tick)
             ELSE CollisionScan_NoSkip(vs, i, j + 1, pairs, tick)

RECURSIVE CollisionScan(_, _, _, _, _)
CollisionScan(vs, i, j, pairs, tick) ==
    IF i > Len(vs) THEN [vehicles |-> vs, pairs |-> pairs]
    ELSE IF j > Len(vs) THEN CollisionScan(vs, i + 1, i + 2, pairs, tick)
    ELSE LET a == vs[i]
             b == vs[j]
         IN  IF a.id \in Matched(pairs) \/ b.id \in Matched(pairs)
             THEN CollisionScan(vs, i, j + 1, pairs, tick)
             ELSE IF Closer(a.x, a.y, b.x, b.y, COLLISION_THRESHOLD)
             THEN CollisionScan(
                     [vs EXCEPT ![i] = [a EXCEPT !.collisionTimestamp = Some(tick),
                                                 !.stopped = TRUE],
                                ![j] = [b EXCEPT !.collisionTimestamp = Some(tick),
                                                 !.stopped = TRUE]],
                     i, j + 1, Append(pairs, <<a.id, b.id>>), tick)
             ELSE CollisionScan(vs, i, j + 1, pairs, tick)

\* the survivor test on the grid itself, without the margin
InBounds_NoMargin(v) ==
    /\ v.x > 0 /\ v.x < GRID_SIZE * CELL_SIZE * PX
    /\ v.y > 0 /\ v.y < GRID_SIZE * CELL_SIZE * PX

InBounds(v) ==
    /\ v.x > -EXIT_MARGIN * PX /\ v.x < (GRID_SIZE * CELL_SIZE + EXIT_MARGIN) * PX
    /\ v.y > -EXIT_MARGIN * PX /\ v.y < (GRID_SIZE * CELL_SIZE + EXIT_MARGIN) * PX

\* moveVehicles, the state updater (lines 230-371)
moveVehicles(prevVehicles, ints, tick, w) ==
    LET movedVehicles == [k \in 1 .. Len(prevVehicles) |->
                             MoveOne(prevVehicles[k], prevVehicles, ints, tick, w)]
        scan == CollisionScan(movedVehicles, 1, 2, <<>>, tick)
        survivingVehicles == SelectSeq(scan.vehicles, InBounds)
    IN  [vehicles |-> survivingVehicles,
         exited |-> Len(movedVehicles) - Len(survivingVehicles),
         pairs |-> scan.pairs,
         entries |-> [k \in 1 .. Len(scan.pairs) |->
                        Entry("Collision detected", scan.pairs[k][1], scan.pairs[k][2],
                              "warning")]]

\* spawnVehicle (lines 182-227): the vehicle built from the random draws
SpawnedVehicle(id, edge, position, type, speed) ==
    LET lane == position * CELL_SIZE + INTERSECTION_SIZE \div 2
        far == GRID_SIZE * CELL_SIZE + SPAWN_OFFSET
    IN  CASE edge = 0 -> Vehicle(id, type, (lane + LANE_WIDTH \div 2) * PX, -SPAWN_OFFSET * PX,
                                 "S", speed)
          [] edge = 1 -> Vehicle(id, type, (lane - LANE_WIDTH \div 2) * PX, far * PX, "N", speed)
          [] edge = 2 -> Vehicle(id, type, -SPAWN_OFFSET * PX, (lane - LANE_WIDTH \div 2) * PX,
                                 "E", speed)
          [] edge = 3 -> Vehicle(id, type, far * PX, (lane + LANE_WIDTH \div 2) * PX, "W", speed)

\* whole pixels per tick inside the ranges of lines 208-217
Speeds(type) ==
    CASE type = CAR -> {2, 3} [] type = BIKE -> {3, 4} [] type = BUS -> {2}

\* ------------------------------------------------------------------------
\* JamDetector
\* ------------------------------------------------------------------------
Segment(kind, i, j) == [kind |-> kind, i |-> i, j |-> j]

\* the segments in the order the two loop nests visit them
HSegments == [k \in 1 .. GRID_SIZE * (GRID_SIZE - 1) |->
                 Segment("H", (k - 1) \div (GRID_SIZE - 1), (k - 1) % (GRID_SIZE - 1))]
VSegments == [k \in 1 .. (GRID_SIZE - 1) * GRID_SIZE |->
                 Segment("V", (k - 1) \div GRID_SIZE, (k - 1) % GRID_SIZE)]
Segments == HSegments \o VSegments

\* the rectangle of a segment (lines 381-384 and 403-406), in pixels
Box(seg) ==
    IF seg.kind = "H"
    THEN [xMin |-> seg.j * CELL_SIZE + INTERSECTION_SIZE,
          xMax |-> (seg.j + 1) * CELL_SIZE,
          yMin |-> seg.i * CELL_SIZE + INTERSECTION_SIZE \div 2,
          yMax |-> seg.i * CELL_SIZE + INTERSECTION_SIZE \div 2 + LANE_WIDTH * 2]
    ELSE [xMin |-> seg.j * CELL_SIZE + INTERSECTION_SIZE \div 2,
          xMax |-> seg.j * CELL_SIZE + INTERSECTION_SIZE \div 2 + LANE_WIDTH * 2,
          yMin |-> seg.i * CELL_SIZE + INTERSECTION_SIZE,
          yMax |-> (seg.i + 1) * CELL_SIZE]

InSegment(v, seg) ==
    LET b == Box(seg)
    IN  v.x > b.xMin * PX /\ v.x < b.xMax * PX /\ v.y > b.yMin * PX /\ v.y < b.yMax * PX

vehiclesInSegment(vs, seg) == SelectSeq(vs, LAMBDA v : InSegment(v, seg))

\* the test with a vehicle count that has to exceed the threshold
IsJammed_Mut(vs, seg) ==
    LET inSeg == vehiclesInSegment(vs, seg)
        stoppedCount == Len(SelectSeq(inSeg, LAMBDA v : v.stopped))
    IN  /\ Len(inSeg) > JAM_VEHICLE_THRESHOLD
        /\ stoppedCount * 100 >= JAM_STOPPED_RATIO_PERCENT * Len(inSeg)

\* the test of lines 390-395: stoppedCount / length >= 0.66
IsJammed(vs, seg) ==
    LET inSeg == vehiclesInSegment(vs, seg)
        stoppedCount == Len(SelectSeq(inSeg, LAMBDA v : v.stopped))
    IN  /\ Len(inSeg) >= JAM_VEHICLE_THRESHOLD
        /\ stoppedCount * 100 >= JAM_STOPPED_RATIO_PERCENT * Len(inSeg)

\* the check that logs every jammed segment, new or not
detectJams_LogAll(vs, prevJams) ==
    LET newJammedSegments == SelectSeq(Segments, LAMBDA seg : IsJammed(vs, seg))
    IN  [jams |-> newJammedSegments,
         entries |-> [k \in 1 .. Len(newJammedSegments) |->
                        Entry("High congestion detected in segment "
                                 \o newJammedSegments[k].kind,
                              newJammedSegments[k].i, newJammedSegments[k].j, "warning")]]

\* detectJams (lines 374-432): the new jam list and the log entries
detectJams(vs, prevJams) ==
    LET newJammedSegments == SelectSeq(Segments, LAMBDA seg : IsJammed(vs, seg))
        fresh == SelectSeq(newJammedSegments,
                           LAMBDA seg : \A k \in 1 .. Len(prevJams) : prevJams[k] # seg)
    IN  [jams |-> newJammedSegments,
         entries |-> [k \in 1 .. Len(fresh) |->
                        Entry("High congestion detected in segment " \o fresh[k].kind,
                              fresh[k].i, fresh[k].j, "warning")]]

\* ------------------------------------------------------------------------
\* StatsAggregator
\* ------------------------------------------------------------------------
RECURSIVE SumWait(_)
SumWait(vs) == IF Len(vs) = 0 THEN 0 ELSE Head(vs).waitTime + SumWait(Tail(vs))

Count(vs, P(_)) == Len(SelectSeq(vs, P))

\* sensorAccuracy and noiseFactor (in percent) of lines 500-508
SensorAccuracy(w) == CASE w = "Rain" -> 90 [] w = "Fog" -> 75 [] OTHER -> 100
NoiseFactor(w) == CASE w = "Rain" -> 10 [] w = "Fog" -> 25 [] OTHER -> 0

\* vehicles within one cell of the corner of intersection i (line 513)
CarsNear(vs, i) ==
    Count(vs, LAMBDA c : Closer(c.x, c.y, (i % GRID_SIZE) * CELL_SIZE * PX,
                                (i \div GRID_SIZE) * CELL_SIZE * PX, CELL_SIZE))

\* the values Math.max(0, Math.round(carsNear + noise)) can take (516-519):
\* noise ranges over [-f * carsNear, f * carsNear) with f = nf / 100
NoisyCounts(carsNear, nf) ==
    IF nf = 0 THEN {carsNear}
    ELSE LET lo == (carsNear * (100 - nf) + 50) \div 100
             top == carsNear * (100 + nf) + 50
             hi == IF carsNear > 0 /\ top % 100 = 0 THEN top \div 100 - 1 ELSE top \div 100
         IN  Max(0, lo) .. Max(0, hi)

\* all sequences that pick one element of each set of a sequence of sets
RECURSIVE Choices(_)
Choices(sets) ==
    IF Len(sets) = 0 THEN {<<>>}
    ELSE {<<x>> \o rest : x \in Head(sets), rest \in Choices(Tail(sets))}

\* updateStats without the jam check (lines 476-494 and 500-524); vs are the
\* vehicles of the last render, tick the incremented counter
updateStats(st, vs, tick, w, throughput, noisy) ==
    LET totalCars == Len(vs)
        totalWaitTime == SumWait(vs)
        avg == IF totalCars > 0
               THEN [num |-> totalWaitTime, den |-> totalCars * TICKS_PER_SECOND]
               ELSE [num |-> 0, den |-> 1]
        hist == IF tick % TICKS_PER_SECOND = 0
                THEN LET h == Append(st.historicalWaitTime, [time |-> tick, wait |-> avg])
                     IN  SubSeq(h, Max(1, Len(h) - HISTORY_LIMIT + 1), Len(h))
                ELSE st.historicalWaitTime
    IN  [st EXCEPT !.historicalWaitTime = hist,
                   !.totalCars = totalCars,
                   !.movingCars = Count(vs, LAMBDA c : ~c.stopped),
                   !.averageWaitTime = avg,
                   !.trafficDensity = [k \in 1 .. GRID_SIZE * GRID_SIZE |->
                                    [carsNear |-> noisy[k], total |-> Max(1, Len(vs))]],
                   !.vehicleThroughput = throughput,
                   !.totalIdleTime = SumWait(SelectSeq(vs, LAMBDA c : c.stopped)),
                   !.vehicleCounts = [cars |-> Count(vs, LAMBDA v : v.type = CAR),
                                      bikes |-> Count(vs, LAMBDA v : v.type = BIKE),
                                      buses |-> Count(vs, LAMBDA v : v.type = BUS)],
                   !.sensorAccuracy = SensorAccuracy(w)]

NoisyChoices(vs, w) ==
    Choices([k \in 1 .. GRID_SIZE * GRID_SIZE |-> NoisyCounts(CarsNear(vs, k - 1), NoiseFactor(w))])

\* ------------------------------------------------------------------------
\* Commands
\* ------------------------------------------------------------------------
FpIdle == [AStarInit(Cell(0, 0), Cell(0, 0)) EXCEPT !.done = TRUE]

\* handleToggleRun (lines 547-551)
handleToggleRun ==
    /\ isRunning' = ~isRunning
    /\ logs' = addLog(logs, Entry(IF ~isRunning THEN "Simulation Started."
                                               ELSE "Simulation Paused.", -1, -1, "info"))
    /\ UNCHANGED <<weather, jammedSegments, intersections, vehicles, stats, simulationTick,
                   vehicleIdCounter, vehicleThroughput, previousJams, collidedPairs, fp, cmds>>

\* the run button pressed at most MaxRunToggles times
ToggleRun ==
    /\ runToggles < MaxRunToggles
    /\ runToggles' = runToggles + 1
    /\ handleToggleRun

\* setLightStateManually (lines 596-619)
SetLightStateManually(intersectionId, direction) ==
    /\ logs' = addLog(logs, Entry("Manual override: " \o direction \o " set to GREEN.",
                                  intersectionId + 1, -1, "warning"))
    /\ intersections' = ManualLights(intersections, intersectionId, direction)
    /\ UNCHANGED <<isRunning, weather, jammedSegments, vehicles, stats, simulationTick,
                   vehicleIdCounter, vehicleThroughput, previousJams, collidedPairs, fp,
                   runToggles>>

\* returnToAuto (lines 621-632)
ReturnToAuto(intersectionId) ==
    /\ logs' = addLog(logs, Entry("returned to automatic control.",
                                  intersectionId + 1, -1, "info"))
    /\ intersections' = AutoReturn(intersections, intersectionId)
    /\ UNCHANGED <<isRunning, weather, jammedSegments, vehicles, stats, simulationTick,
                   vehicleIdCounter, vehicleThroughput, previousJams, collidedPairs, fp,
                   runToggles>>

\* the activation updater reporting a failed route on an empty vehicle list
Activate_Mut(prev, randomIndex) ==
    IF Len(prev) = 0
    THEN [vehicles |-> prev,
          entries |-> <<Entry("Could not calculate route for vehicle", -1, -1, "warning")>>]
    ELSE IF \A k \in 1 .. Len(prev) : ~prev[k].isEmergency
    THEN LET vehicle == prev[randomIndex + 1]
             start == GridCell(vehicle)
             dest == Cell(GRID_SIZE - 1 - start.gridX, GRID_SIZE - 1 - start.gridY)
             path == findPath(start, dest)
         IN  IF Len(path) > 0
             THEN [vehicles |-> [prev EXCEPT ![randomIndex + 1] =
                                    [vehicle EXCEPT !.isEmergency = TRUE,
                                                    !.destination = Some(dest),
                                                    !.path = Some(<<start>> \o path)]],
                   entries |-> <<Entry("Route calculated for emergency vehicle",
                                       vehicle.id, -1, "emergency")>>]
             ELSE [vehicles |-> prev,
                   entries |-> <<Entry("Could not calculate route for vehicle",
                                       vehicle.id, -1, "warning")>>]
    ELSE [vehicles |-> prev, entries |-> <<>>]

\* the activation updater marking the vehicle although no route was found
Activate_MarkOnFail(prev, randomIndex) ==
    IF Len(prev) > 0 /\ \A k \in 1 .. Len(prev) : ~prev[k].isEmergency
    THEN LET vehicle == prev[randomIndex + 1]
             start == GridCell(vehicle)
             dest == Cell(GRID_SIZE - 1 - start.gridX, GRID_SIZE - 1 - start.gridY)
             path == findPath(start, dest)
         IN  IF Len(path) > 0
             THEN [vehicles |-> [prev EXCEPT ![randomIndex + 1] =
                                    [vehicle EXCEPT !.isEmergency = TRUE,
                                                    !.destination = Some(dest),
                                                    !.path = Some(<<start>> \o path)]],
                   entries |-> <<Entry("Route calculated for emergency vehicle",
                                       vehicle.id, -1, "emergency")>>]
             ELSE [vehicles |-> [prev EXCEPT ![randomIndex + 1] =
                                    [vehicle EXCEPT !.isEmergency = TRUE]],
                   entries |-> <<Entry("Could not calculate route for vehicle",
                                       vehicle.id, -1, "warning")>>]
    ELSE [vehicles |-> prev, entries |-> <<>>]

\* the activation updater of toggleEmergency (lines 559-585) for the drawn
\* index: the new vehicle list and the log entry of the routing outcome
Activate(prev, randomIndex) ==
    IF Len(prev) > 0 /\ \A k \in 1 .. Len(prev) : ~prev[k].isEmergency
    THEN LET vehicle == prev[randomIndex + 1]
             start == GridCell(vehicle)
             dest == Cell(GRID_SIZE - 1 - start.gridX, GRID_SIZE - 1 - start.gridY)
             path == findPath(start, dest)
         IN  IF Len(path) > 0
             THEN [vehicles |-> [prev EXCEPT ![randomIndex + 1] =
                                    [vehicle EXCEPT !.isEmergency = TRUE,
                                                    !.destination = Some(dest),
                                                    !.path = Some(<<start>> \o path)]],
                   entries |-> <<Entry("Route calculated for emergency vehicle",
                                       vehicle.id, -1, "emergency")>>]
             ELSE [vehicles |-> prev,
                   entries |-> <<Entry("Could not calculate route for vehicle",
                                       vehicle.id, -1, "warning")>>]
    ELSE [vehicles |-> prev, entries |-> <<>>]

\* the deactivation withdrawing the emergency status and keeping the route
Deactivate_KeepRoute(prev) ==
    [k \in 1 .. Len(prev) |-> [prev[k] EXCEPT !.isEmergency = FALSE]]

Deactivate(prev) ==
    [k \in 1 .. Len(prev) |->
        [prev[k] EXCEPT !.isEmergency = FALSE, !.path = None, !.destination = None]]

\* toggleEmergency (lines 553-590); Math.random picks the index
ToggleEmergency ==
    /\ stats' = [stats EXCEPT !.emergencyActive = ~stats.emergencyActive]
    /\ IF ~stats.emergencyActive
       THEN \E randomIndex \in 0 .. Max(0, Len(vehicles) - 1) :
               LET r == Activate(vehicles, randomIndex)
               IN  /\ vehicles' = r.vehicles
                   /\ logs' = addLogs(addLog(logs, Entry("Emergency Priority Activated!",
                                                         -1, -1, "emergency")), r.entries)
       ELSE /\ vehicles' = Deactivate(vehicles)
            /\ logs' = addLog(logs, Entry("Emergency Priority Deactivated.", -1, -1,
                                          "emergency"))
    /\ UNCHANGED <<isRunning, weather, jammedSegments, intersections, simulationTick,
                   vehicleIdCounter, vehicleThroughput, previousJams, collidedPairs, fp,
                   runToggles>>

\* handleSetWeather (lines 126-129)
SetWeather(newWeather) ==
    /\ weather' = newWeather
    /\ logs' = addLog(logs, Entry("Weather changed to " \o newWeather, -1, -1, "info"))
    /\ UNCHANGED <<isRunning, jammedSegments, intersections, vehicles, stats, simulationTick,
                   vehicleIdCounter, vehicleThroughput, previousJams, collidedPairs, fp,
                   runToggles>>

\* ------------------------------------------------------------------------
\* TickScheduler: one run of the interval callback (lines 534-542).
\* draw is the vehicle a spawn of this tick would create, noisy the noisy
\* vehicle counts per intersection.
\* ------------------------------------------------------------------------
SpawnDue == simulationTick % (SPAWN_INTERVAL_S * TICKS_PER_SECOND) = 0
Spawns == SpawnDue /\ ~(Len(vehicles) > VEHICLE_CAP)

\* the callback with the vehicle pass reading the lights of the last render
TickStep_Mut(spawned, noisy) ==
    LET ints1 == prioritizeEmergencyPath(vehicles, intersections)
        ints2 == updateLights(ints1)
        mv == moveVehicles(vehicles, intersections, simulationTick, weather)
        tick == simulationTick + 1
        throughput == vehicleThroughput + mv.exited
        jamDue == tick % (TICKS_PER_SECOND \div 2) = 0
        jam == detectJams(vehicles, previousJams)
    IN  /\ intersections' = ints2
        /\ vehicles' = mv.vehicles \o spawned
        /\ collidedPairs' = mv.pairs
        /\ vehicleThroughput' = throughput
        /\ vehicleIdCounter' = vehicleIdCounter + Len(spawned)
        /\ simulationTick' = tick
        /\ previousJams' = IF jamDue THEN jam.jams ELSE previousJams
        /\ jammedSegments' = IF jamDue THEN jam.jams ELSE jammedSegments
        /\ logs' = addLogs(addLogs(logs, mv.entries), IF jamDue THEN jam.entries ELSE <<>>)
        /\ stats' = updateStats(stats, vehicles, tick, weather, throughput, noisy)
        /\ UNCHANGED <<isRunning, weather, fp, cmds, runToggles>>

TickStep(spawned, noisy) ==
    LET ints1 == prioritizeEmergencyPath(vehicles, intersections)
        ints2 == updateLights(ints1)
        mv == moveVehicles(vehicles, ints2, simulationTick, weather)
        tick == simulationTick + 1
        throughput == vehicleThroughput + mv.exited
        jamDue == tick % (TICKS_PER_SECOND \div 2) = 0
        jam == detectJams(vehicles, previousJams)
    IN  /\ intersections' = ints2
        /\ vehicles' = mv.vehicles \o spawned
        /\ collidedPairs' = mv.pairs
        /\ vehicleThroughput' = throughput
        /\ vehicleIdCounter' = vehicleIdCounter + Len(spawned)
        /\ simulationTick' = tick
        /\ previousJams' = IF jamDue THEN jam.jams ELSE previousJams
        /\ jammedSegments' = IF jamDue THEN jam.jams ELSE jammedSegments
        /\ logs' = addLogs(addLogs(logs, mv.entries), IF jamDue THEN jam.entries ELSE <<>>)
        /\ stats' = updateStats(stats, vehicles, tick, weather, throughput, noisy)
        /\ UNCHANGED <<isRunning, weather, fp, cmds, runToggles>>

\* the interval callback firing while the simulation is paused as well
Tick_Mut(draws) ==
    \E noisy \in NoisyChoices(vehicles, weather) :
        IF Spawns
        THEN \E d \in draws :
                TickStep(<<SpawnedVehicle(vehicleIdCounter, d[1], d[2], d[3], d[4])>>, noisy)
        ELSE TickStep(<<>>, noisy)

\* draws: the (edge, position, type, speed) tuples Math.random may produce
\* the tick whose spawn numbers the new vehicle by the length of the list
Tick_ReuseId(draws) ==
    /\ isRunning
    /\ \E noisy \in NoisyChoices(vehicles, weather) :
          IF Spawns
          THEN \E d \in draws :
                  TickStep(<<SpawnedVehicle(Len(vehicles), d[1], d[2], d[3], d[4])>>, noisy)
          ELSE TickStep(<<>>, noisy)

Tick(draws) ==
    /\ isRunning
    /\ \E noisy \in NoisyChoices(vehicles, weather) :
          IF Spawns
          THEN \E d \in draws :
                  TickStep(<<SpawnedVehicle(vehicleIdCounter, d[1], d[2], d[3], d[4])>>, noisy)
          ELSE TickStep(<<>>, noisy)

InitProgram ==
    /\ isRunning = FALSE
    /\ weather = "Clear"
    /\ logs = <<>>
    /\ jammedSegments = <<>>
    /\ intersections = InitialIntersections
    /\ vehicles = <<>>
    /\ stats = InitialStats
    /\ simulationTick = 0
    /\ vehicleIdCounter = 0
    /\ vehicleThroughput = 0
    /\ previousJams = <<>>
    /\ collidedPairs = <<>>
    /\ fp = FpIdle
    /\ cmds = 0
    /\ runToggles = 0

\* ------------------------------------------------------------------------
\* Specification of the signal control: the program from its initial state
\* with the light commands and the emergency toggle
\* ------------------------------------------------------------------------
CmdIds == {1}
LightDraws == {<<2, 0, CAR, 3>>}

Init == InitProgram

TickLights == simulationTick < MaxTick /\ Tick(LightDraws)

CmdManual ==
    /\ cmds < MaxCmds /\ cmds' = cmds + 1
    /\ \E id \in CmdIds, direction \in {"NS", "EW"} : SetLightStateManually(id, direction)

CmdAuto ==
    /\ cmds < MaxCmds /\ cmds' = cmds + 1
    /\ \E id \in CmdIds : ReturnToAuto(id)

CmdEmergency ==
    /\ cmds < MaxCmds /\ cmds' = cmds + 1
    /\ ToggleEmergency

Next == ToggleRun \/ TickLights \/ CmdManual \/ CmdAuto \/ CmdEmergency

Spec == Init /\ [][Next]_vars

\* ------------------------------------------------------------------------
\* Properties of the signal control
\* ------------------------------------------------------------------------
IsTick == simulationTick' = simulationTick + 1

NSStates(L) == {L[1].state, L[2].state}
EWStates(L) == {L[3].state, L[4].state}

\* the phase an intersection shows; OTHER is none of the four phases
Phase(L) ==
    CASE NSStates(L) = {GREEN} /\ EWStates(L) = {RED} -> "NS_GREEN"
      [] NSStates(L) = {YELLOW} /\ EWStates(L) = {RED} -> "NS_YELLOW"
      [] NSStates(L) = {RED} /\ EWStates(L) = {GREEN} -> "EW_GREEN"
      [] NSStates(L) = {RED} /\ EWStates(L) = {YELLOW} -> "EW_YELLOW"
      [] OTHER -> "OTHER"

CycleSteps == {<<"NS_GREEN", "NS_YELLOW">>, <<"NS_YELLOW", "EW_GREEN">>,
               <<"EW_GREEN", "EW_YELLOW">>, <<"EW_YELLOW", "NS_GREEN">>}

\* C1: in every reachable state, an intersection without an emergency
\* override never shows Green on both axes nor Yellow on both axes.
C1_NoConflictingAxes ==
    \A i \in IntersectionIds :
        intersections[i].emergencyOverrideFor = NoDir =>
            \A s \in {GREEN, YELLOW} :
                ~(s \in NSStates(intersections[i].lights) /\ s \in EWStates(intersections[i].lights))

\* C2: a tick of an intersection under automatic control (no manual override,
\* no emergency override) changes its phase only along the cycle
\* NS_GREEN -> NS_YELLOW -> EW_GREEN -> EW_YELLOW -> NS_GREEN.
C2_CycleOrder ==
    [][IsTick =>
        \A i \in IntersectionIds :
            (/\ ~intersections[i].manualOverride
             /\ intersections[i].emergencyOverrideFor = NoDir
             /\ intersections'[i].emergencyOverrideFor = NoDir
             /\ Phase(intersections'[i].lights) # Phase(intersections[i].lights))
            => <<Phase(intersections[i].lights), Phase(intersections'[i].lights)>> \in CycleSteps]_vars

AxisOf(d) == IF d = "N" \/ d = "S" THEN "NS" ELSE "EW"

\* the lights show Green on the given axis and Red on the other
ShowsAxis(L, axis) ==
    IF axis = "NS" THEN NSStates(L) = {GREEN} /\ EWStates(L) = {RED}
    ELSE NSStates(L) = {RED} /\ EWStates(L) = {GREEN}

\* C3: a tick that finds an intersection manually overridden and gives it an
\* emergency override for heading d leaves the axis of d Green and the
\* orthogonal axis Red.
C3_EmergencyGoverns ==
    [][IsTick =>
        \A i \in IntersectionIds :
            (intersections[i].manualOverride /\ intersections'[i].emergencyOverrideFor # NoDir)
            => ShowsAxis(intersections'[i].lights, AxisOf(intersections'[i].emergencyOverrideFor))]_vars

States(L) == [k \in 1 .. 4 |-> L[k].state]
Timers(L) == [k \in 1 .. 4 |-> L[k].timer]

\* C4: setLightStateManually forces the chosen axis Green and the other Red;
\* ticks leave a manually overridden intersection's lights and timers as they
\* are; returnToAuto clears manualOverride, keeps the light states and sets
\* the four timers to INITIAL_LIGHT_DURATION; and from then on each tick
\* under automatic control counts the timer down by one without changing a
\* light until the tick that takes it from 1 to 0, which turns the Green
\* axis Yellow: the phase changes at the 20th such tick.
C4_ManualOverrideFrame ==
    [][\A i \in IntersectionIds :
        LET a == intersections[i]
            b == intersections'[i]
        IN  /\ \A d \in {"NS", "EW"} :
                  SetLightStateManually(i, d) => b.manualOverride /\ ShowsAxis(b.lights, d)
            /\ (IsTick /\ a.manualOverride) => b.manualOverride /\ b.lights = a.lights
            /\ ReturnToAuto(i) =>
                  /\ ~b.manualOverride
                  /\ States(b.lights) = States(a.lights)
                  /\ \A k \in 1 .. 4 : b.lights[k].timer = INITIAL_LIGHT_DURATION
            /\ (/\ IsTick /\ ~a.manualOverride /\ b.emergencyOverrideFor = NoDir
                /\ Phase(a.lights) \in {"NS_GREEN", "EW_GREEN"}
                /\ a.lights[1].timer \in 1 .. INITIAL_LIGHT_DURATION)
               => IF a.lights[1].timer > 1
                  THEN /\ States(b.lights) = States(a.lights)
                       /\ \A k \in 1 .. 4 : b.lights[k].timer = a.lights[1].timer - 1
                  ELSE Phase(b.lights) = (IF Phase(a.lights) = "NS_GREEN" THEN "NS_YELLOW"
                                          ELSE "EW_YELLOW")]_vars

\* an intersection that was forced to NS Green, returned to automatic control
\* as the latest command, and has just turned NS Yellow
C4_Witness ==
    \E i \in IntersectionIds :
        /\ Len(logs) >= 2
        /\ logs[1] = Entry("returned to automatic control.", i + 1, -1, "info")
        /\ logs[2] = Entry("Manual override: NS set to GREEN.", i + 1, -1, "warning")
        /\ ~intersections[i].manualOverride
        /\ intersections[i].lights[1] = Light(YELLOW, YELLOW_LIGHT_DURATION)
        /\ intersections[i].lights[3] = Light(RED, 0)

\* ------------------------------------------------------------------------
\* Specification of findPath: the start and the destination are drawn from
\* the cells with coordinates -1 .. MaxCoord (a vehicle between x = -50 and
\* x = 650 lies in column -1 .. 3), one action per iteration of the loop
\* ------------------------------------------------------------------------
PathCells == {Cell(gx, gy) : gx \in -1 .. MaxCoord, gy \in -1 .. MaxCoord}

PathInit(pairs) ==
    /\ isRunning = FALSE
    /\ weather = "Clear"
    /\ logs = <<>>
    /\ jammedSegments = <<>>
    /\ intersections = InitialIntersections
    /\ vehicles = <<>>
    /\ stats = InitialStats
    /\ simulationTick = 0
    /\ vehicleIdCounter = 0
    /\ vehicleThroughput = 0
    /\ previousJams = <<>>
    /\ collidedPairs = <<>>
    /\ cmds = 0
    /\ runToggles = 0
    /\ \E pair \in pairs : fp = AStarInit(pair[1], pair[2])

InitPath == PathInit(PathCells \X PathCells)

\* the calls toggleEmergency makes (lines 565-572): the destination is the
\* cell diagonally opposite to the start
InitPathCall ==
    PathInit({<<c, Cell(GRID_SIZE - 1 - c.gridX, GRID_SIZE - 1 - c.gridY)>> : c \in PathCells})

FindPathStep ==
    /\ ~fp.done
    /\ fp' = AStarStep(fp)
    /\ UNCHANGED <<isRunning, weather, logs, jammedSegments, intersections, vehicles, stats,
                   simulationTick, vehicleIdCounter, vehicleThroughput, previousJams,
                   collidedPairs, cmds, runToggles>>

NextPath == FindPathStep

SpecPath == InitPath /\ [][NextPath]_vars

\* the loop of findPath runs to completion once called
SpecPathFair == InitPathCall /\ [][NextPath]_vars /\ WF_vars(FindPathStep)

\* C5: for distinct cells a, b of the grid the returned sequence excludes a,
\* ends at b, moves by one 4-adjacent step inside the grid at a time (the
\* first step from a) and has as many elements as the Manhattan distance.
C5_ShortestPath ==
    (fp.done /\ InGrid(fp.start) /\ InGrid(fp.end) /\ fp.start # fp.end) =>
        LET p == fp.result
        IN  /\ Len(p) = Manhattan(fp.start, fp.end)
            /\ p[Len(p)] = fp.end
            /\ \A k \in 1 .. Len(p) :
                  /\ p[k] # fp.start
                  /\ InGrid(p[k])
                  /\ Manhattan(IF k = 1 THEN fp.start ELSE p[k - 1], p[k]) = 1

C5_Witness ==
    /\ fp.done /\ fp.start = Cell(0, 0) /\ fp.end = Cell(2, 2)
    /\ fp.result = <<Cell(1, 0), Cell(2, 0), Cell(2, 1), Cell(2, 2)>>

\* C6: findPath always terminates, and it returns the empty sequence when
\* start and destination are the same cell and when the destination lies
\* outside the grid (so cannot be reached).
C6_TerminatesEmpty ==
    /\ <>(fp.done)
    /\ []((fp.done /\ (fp.start = fp.end \/ ~InGrid(fp.end))) => fp.result = <<>>)

\* a search from outside the grid for a destination outside the grid that
\* has visited all nine cells and returned the empty sequence
C6_Witness ==
    /\ fp.done /\ fp.start = Cell(-1, 0) /\ fp.end = Cell(GRID_SIZE, GRID_SIZE - 1)
    /\ fp.result = <<>>
    /\ Cardinality(DOMAIN fp.nodes) = GRID_SIZE * GRID_SIZE + 1

\* ------------------------------------------------------------------------
\* Specification of the vehicle passes: the program from its initial state,
\* vehicles entering on the eastbound lane of row 0, emergency mode switched
\* on at any moment
\* ------------------------------------------------------------------------
MoveDraws == {<<2, 0, BIKE, 4>>}

TickMove == simulationTick < MaxTickMove /\ Tick(MoveDraws)

EmergencyOn ==
    /\ ~stats.emergencyActive
    /\ ToggleEmergency
    /\ UNCHANGED cmds

NextMove == ToggleRun \/ TickMove \/ EmergencyOn

SpecMove == InitProgram /\ [][NextMove]_vars

\* the vehicle of the new list that has the id of v, as a sequence of 0 or 1
After(v) == SelectSeq(vehicles', LAMBDA n : n.id = v.id)

\* C7: over every step a surviving vehicle's waitTime does not decrease, and
\* a tick that leaves the vehicle with stopped = FALSE leaves its waitTime
\* as it was.
C7_WaitTimeMonotone ==
    [][\A k \in 1 .. Len(vehicles) :
        \A n \in {After(vehicles[k])[j] : j \in 1 .. Len(After(vehicles[k]))} :
            /\ n.waitTime >= vehicles[k].waitTime
            /\ (IsTick /\ ~n.stopped) => n.waitTime = vehicles[k].waitTime]_vars

\* an emergency vehicle that moved in the tick and was then marked stopped by
\* the collision pass, beside a vehicle that has waited
C7_Witness ==
    \E k \in 1 .. Len(vehicles), j \in 1 .. Len(vehicles) :
        /\ vehicles[k].isEmergency /\ vehicles[k].stopped /\ vehicles[k].waitTime = 0
        /\ vehicles[k].collisionTimestamp = Some(simulationTick - 1)
        /\ ~vehicles[j].isEmergency /\ vehicles[j].stopped /\ vehicles[j].waitTime > 1

\* C8: a collision timestamp T that is not renewed stays through the ticks
\* with index below T + COLLISION_FLASH_DURATION_TICKS and is removed by the
\* tick with index T + COLLISION_FLASH_DURATION_TICKS.
C8_FlashDuration ==
    [][IsTick =>
        \A k \in 1 .. Len(vehicles) :
            \A n \in {After(vehicles[k])[j] : j \in 1 .. Len(After(vehicles[k]))} :
                (IsSome(vehicles[k].collisionTimestamp) /\ n.id \notin Matched(collidedPairs'))
                => LET T == Val(vehicles[k].collisionTimestamp)
                   IN  /\ simulationTick < T + COLLISION_FLASH_DURATION_TICKS
                            => n.collisionTimestamp = Some(T)
                       /\ simulationTick = T + COLLISION_FLASH_DURATION_TICKS
                            => n.collisionTimestamp = None]_vars

\* the vehicles of the new list that went through the collision pass of the
\* tick (a vehicle spawned in the tick is appended after the pass)
Passed == SelectSeq(vehicles', LAMBDA n : n.id < vehicleIdCounter)

\* C9: after the collision pass of a tick every matched vehicle carries the
\* index of the tick as collisionTimestamp and is stopped, the two vehicles of
\* a matched pair are closer than the collision threshold, and no two
\* unmatched vehicles are closer than the threshold.
C9_CollisionPass ==
    [][IsTick =>
        LET m == Matched(collidedPairs')
            P == {Passed[j] : j \in 1 .. Len(Passed)}
        IN  /\ \A n \in P : n.id \in m =>
                  n.collisionTimestamp = Some(simulationTick) /\ n.stopped
            /\ \A k \in 1 .. Len(collidedPairs') : \A a \in P, b \in P :
                  (a.id = collidedPairs'[k][1] /\ b.id = collidedPairs'[k][2])
                  => Closer(a.x, a.y, b.x, b.y, COLLISION_THRESHOLD)
            /\ \A a \in P, b \in P :
                  (a.id # b.id /\ a.id \notin m /\ b.id \notin m)
                  => ~Closer(a.x, a.y, b.x, b.y, COLLISION_THRESHOLD)]_vars

\* a tick has just matched an emergency vehicle with the vehicle it drives
\* through
C9_Witness ==
    /\ Len(collidedPairs) = 1
    /\ \E k \in 1 .. Len(vehicles), j \in 1 .. Len(vehicles) :
          /\ <<vehicles[j].id, vehicles[k].id>> = collidedPairs[1]
          /\ vehicles[k].isEmergency /\ ~vehicles[j].isEmergency
          /\ vehicles[k].collisionTimestamp = Some(simulationTick - 1)
          /\ vehicles[j].collisionTimestamp = Some(simulationTick - 1)

\* ------------------------------------------------------------------------
\* Specification of the jam detector: detectJams applied to vehicle lists
\* drawn on the westbound lane of row 0 and the southbound lane of column 0
\* ------------------------------------------------------------------------
WestLane == (INTERSECTION_SIZE \div 2 + LANE_WIDTH \div 2) * PX
SouthLane == (INTERSECTION_SIZE \div 2 + LANE_WIDTH \div 2) * PX

\* places inside segment H-0-1 (300 < x < 400), one on its edge x = 400, and
\* places inside segment V-0-0 (100 < y < 200)
JamSpots ==
    <<[x |-> 310 * PX, y |-> WestLane, direction |-> "W"],
      [x |-> 335 * PX, y |-> WestLane, direction |-> "W"],
      [x |-> 360 * PX, y |-> WestLane, direction |-> "W"],
      [x |-> 385 * PX, y |-> WestLane, direction |-> "W"],
      [x |-> 400 * PX, y |-> WestLane, direction |-> "W"],
      [x |-> SouthLane, y |-> 170 * PX, direction |-> "S"],
      [x |-> SouthLane, y |-> 140 * PX, direction |-> "S"],
      [x |-> SouthLane, y |-> 110 * PX, direction |-> "S"]>>

\* the elements of a set of numbers in increasing order
Ascending(S) ==
    CHOOSE q \in [1 .. Cardinality(S) -> S] :
        \A a, b \in 1 .. Cardinality(S) : a < b => q[a] < q[b]

JamVehicle(id, spot, stopped) ==
    [Vehicle(id, CAR, spot.x, spot.y, spot.direction, 2)
        EXCEPT !.stopped = stopped, !.waitTime = IF stopped THEN 1 ELSE 0]

InitJam ==
    /\ isRunning = FALSE
    /\ weather = "Clear"
    /\ logs = <<>>
    /\ jammedSegments = <<>>
    /\ intersections = InitialIntersections
    /\ stats = InitialStats
    /\ simulationTick = 0
    /\ vehicleThroughput = 0
    /\ previousJams = <<>>
    /\ collidedPairs = <<>>
    /\ fp = FpIdle
    /\ cmds = 0
    /\ runToggles = 0
    /\ \E S \in SUBSET (1 .. Len(JamSpots)) :
          /\ Cardinality(S) <= MaxJamVehicles
          /\ \E st \in [S -> BOOLEAN] :
                vehicles = [k \in 1 .. Cardinality(S) |->
                              JamVehicle(k - 1, JamSpots[Ascending(S)[k]],
                                         st[Ascending(S)[k]])]
    /\ vehicleIdCounter = Len(vehicles)

\* one call of detectJams on the vehicle list
JamCheck ==
    /\ cmds < MaxJamChecks
    /\ LET jam == detectJams(vehicles, previousJams)
       IN  /\ jammedSegments' = jam.jams
           /\ previousJams' = jam.jams
           /\ logs' = addLogs(logs, jam.entries)
    /\ cmds' = cmds + 1
    /\ UNCHANGED <<isRunning, weather, intersections, vehicles, stats, simulationTick,
                   vehicleIdCounter, vehicleThroughput, collidedPairs, fp, runToggles>>

NextJam == JamCheck

SpecJam == InitJam /\ [][NextJam]_vars

\* the vehicles of the list inside a segment, and the stopped ones among them
Occupants(seg) == {k \in 1 .. Len(vehicles) : InSegment(vehicles[k], seg)}
StoppedOccupants(seg) == {k \in Occupants(seg) : vehicles[k].stopped}
Reported(seg) == \E k \in 1 .. Len(jammedSegments) : jammedSegments[k] = seg

\* C10: after a jam check a segment is reported jammed exactly when it holds
\* at least 3 vehicles and stopped occupants / occupants is at least 0.66; a
\* segment with 2 or fewer occupants is not reported.
C10_JamRule ==
    cmds > 0 =>
        \A k \in 1 .. Len(Segments) :
            LET seg == Segments[k]
                n == Cardinality(Occupants(seg))
                st == Cardinality(StoppedOccupants(seg))
            IN  /\ Reported(seg) <=> (n >= 3 /\ st * 100 >= 66 * n)
                /\ n <= 2 => ~Reported(seg)

\* segment H-0-1 reported with 3 occupants of which 2 are stopped, next to a
\* vehicle on the edge of the segment that is not counted
C10_Witness ==
    /\ cmds > 0
    /\ jammedSegments = <<Segment("H", 0, 1)>>
    /\ Cardinality(Occupants(Segment("H", 0, 1))) = 3
    /\ Cardinality(StoppedOccupants(Segment("H", 0, 1))) = 2
    /\ Len(vehicles) = 4

\* ------------------------------------------------------------------------
\* Specification of the southbound lane of column 0: vehicles entering at
\* the top edge, the signals of intersections 0 and 3 under manual commands
\* ------------------------------------------------------------------------
SouthDraws == {<<0, 0, BIKE, 4>>}
SouthIds == {0, GRID_SIZE}

TickSouth == simulationTick < MaxTickSouth /\ Tick(SouthDraws)

CmdSouth ==
    /\ cmds < MaxCmds
    /\ cmds' = cmds + 1
    /\ \E i \in SouthIds : SetLightStateManually(i, "NS")

NextSouth == ToggleRun \/ TickSouth \/ CmdSouth

SpecSouth == InitProgram /\ [][NextSouth]_vars

\* no other vehicle is within the safety distance of v
NoNeighbour(v) ==
    \A k \in 1 .. Len(vehicles) :
        vehicles[k].id # v.id =>
            ~Closer(v.x, v.y, vehicles[k].x, vehicles[k].y,
                    IF v.type = BUS THEN SAFETY_DISTANCE_BUS ELSE SAFETY_DISTANCE)

\* v is not in the approach zone of an intersection, or the light of its
\* heading there is Green before and after the light advance of the step
GreenAhead(v) ==
    LET c == GridCell(v)
        id == c.gridY * GRID_SIZE + c.gridX
    IN  (/\ InGrid(c)
         /\ isNearIntersection(v.x, "x", v.direction) \/ isNearIntersection(v.y, "y", v.direction))
        => /\ intersections[id].lights[LightIndex(v.direction)].state = GREEN
           /\ intersections'[id].lights[LightIndex(v.direction)].state = GREEN

\* C11: a tick under Clear weather moves a southbound vehicle that has no
\* vehicle within its safety distance and a Green light where it approaches
\* an intersection by exactly its speed in y, leaves x and waitTime as they
\* were and leaves it with stopped = FALSE, while it stays in bounds.
C11_SouthFreeRun ==
    [][IsTick =>
        \A k \in 1 .. Len(vehicles) :
            LET v == vehicles[k]
            IN  (v.direction = "S" /\ weather = "Clear" /\ NoNeighbour(v) /\ GreenAhead(v))
                => \A n \in {After(v)[j] : j \in 1 .. Len(After(v))} :
                      /\ ~n.stopped
                      /\ n.y = v.y + v.speed * PX
                      /\ n.x = v.x
                      /\ n.waitTime = v.waitTime]_vars

\* a vehicle that has passed the stop lines of intersections 0 and 3 without
\* waiting: k ticks after the tick of its spawn it is k * speed below the
\* spawn point
C11_Witness ==
    \E k \in 1 .. Len(vehicles) :
        /\ vehicles[k].direction = "S" /\ vehicles[k].id = 0
        /\ vehicles[k].waitTime = 0 /\ ~vehicles[k].stopped
        /\ vehicles[k].y > (CELL_SIZE + LANE_WIDTH) * PX
        /\ vehicles[k].y = ((simulationTick - 1) * vehicles[k].speed - SPAWN_OFFSET) * PX

RouteMessages == {"Route calculated for emergency vehicle",
                  "Could not calculate route for vehicle"}

\* a step of toggleEmergency that switches emergency mode on
IsActivation == ~stats.emergencyActive /\ stats'.emergencyActive

\* C12: activating emergency mode while the vehicle list is empty leaves the
\* list empty and adds the activation entry to the log and no route entry.
C12_ActivateEmpty ==
    [][(IsActivation /\ Len(vehicles) = 0) =>
        /\ vehicles' = vehicles
        /\ logs' = addLog(logs, Entry("Emergency Priority Activated!", -1, -1, "emergency"))
        /\ \A k \in 1 .. Len(logs') : logs'[k].message \notin RouteMessages]_vars

\* emergency mode is on, activated before the first vehicle was spawned
C12_Witness ==
    /\ stats.emergencyActive
    /\ Len(vehicles) = 0
    /\ vehicleIdCounter = 0
    /\ Len(logs) > 0 /\ Head(logs).message = "Emergency Priority Activated!"

\* a step of toggleEmergency that switches emergency mode off
IsDeactivation == stats.emergencyActive /\ ~stats'.emergencyActive

\* C13: the state right after a deactivation of emergency mode has no vehicle
\* with isEmergency, a path or a destination and no intersection with an
\* emergency override.
C13_DeactivationClears ==
    [][IsDeactivation =>
        /\ \A k \in 1 .. Len(vehicles') :
              /\ ~vehicles'[k].isEmergency
              /\ vehicles'[k].path = None
              /\ vehicles'[k].destination = None
        /\ \A i \in IntersectionIds : intersections'[i].emergencyOverrideFor = NoDir]_vars

\* ------------------------------------------------------------------------
\* Specification of the phase order: vehicles entering on the eastbound lane
\* of row 1, emergency mode switched on at any moment
\* ------------------------------------------------------------------------
OrderDraws == {<<2, 1, BIKE, 4>>, <<2, 1, CAR, 2>>}

TickOrder == simulationTick < MaxTickOrder /\ Tick(OrderDraws)

NextOrder == ToggleRun \/ TickOrder \/ EmergencyOn

SpecOrder == InitProgram /\ [][NextOrder]_vars

\* v is in the approach zone of the intersection of its grid cell
Approaching(v) ==
    /\ InGrid(GridCell(v))
    /\ isNearIntersection(v.x, "x", v.direction) \/ isNearIntersection(v.y, "y", v.direction)

\* the light v faces in the given intersection list
Facing(v, ints) ==
    ints[GridCell(v).gridY * GRID_SIZE + GridCell(v).gridX].lights[LightIndex(v.direction)]

\* the vehicles of the new list that were spawned by the step
Spawned == SelectSeq(vehicles', LAMBDA n : n.id >= vehicleIdCounter)

\* C14: within a tick (a) an intersection that the recomputation gives an
\* emergency override shows that override on its lights in the same tick,
\* (b) a vehicle in an approach zone waits or moves according to the light
\* states the tick's light advance produced, (c) collisions are matched on
\* the positions after the move, and (d) the spawn test and the collision
\* stamp read the tick index before the statistics step increments it, and
\* a spawned vehicle is appended unmoved and unmatched.
C14_PhaseOrder ==
    [][IsTick =>
        /\ \A i \in IntersectionIds :
              (~intersections[i].manualOverride /\ intersections'[i].emergencyOverrideFor # NoDir)
              => ShowsAxis(intersections'[i].lights,
                           AxisOf(intersections'[i].emergencyOverrideFor))
        /\ \A k \in 1 .. Len(vehicles) :
              LET v == vehicles[k]
              IN  (~v.isEmergency /\ Approaching(v) /\ NoNeighbour(v))
                  => \A n \in {After(v)[j] : j \in 1 .. Len(After(v))} :
                        IF Facing(v, intersections').state = GREEN
                        THEN n.waitTime = v.waitTime /\ <<n.x, n.y>> # <<v.x, v.y>>
                        ELSE n.waitTime = v.waitTime + 1 /\ <<n.x, n.y>> = <<v.x, v.y>>
        /\ LET P == {Passed[j] : j \in 1 .. Len(Passed)}
               m == Matched(collidedPairs')
           IN  \A a \in P, b \in P :
                  a.id < b.id =>
                     /\ (a.id \in m /\ b.id \in m)
                           => Closer(a.x, a.y, b.x, b.y, COLLISION_THRESHOLD)
                     /\ (a.id \notin m /\ b.id \notin m)
                           => ~Closer(a.x, a.y, b.x, b.y, COLLISION_THRESHOLD)
        /\ (Len(Spawned) = 1) = (simulationTick % (SPAWN_INTERVAL_S * TICKS_PER_SECOND) = 0)
        /\ Len(Spawned) <= 1
        /\ \A j \in 1 .. Len(Spawned) :
              /\ Spawned[j] = vehicles'[Len(vehicles')]
              /\ Spawned[j].x = -SPAWN_OFFSET * PX
              /\ Spawned[j].id \notin Matched(collidedPairs')
        /\ \A j \in 1 .. Len(Passed) :
              Passed[j].id \in Matched(collidedPairs')
              => Passed[j].collisionTimestamp = Some(simulationTick)]_vars

\* the tick that first gave intersection 4 an emergency override has turned
\* its eastbound light Green and moved the vehicle that waited in front of it
C14_Witness ==
    /\ intersections[GRID_SIZE + 1].emergencyOverrideFor = "E"
    /\ ShowsAxis(intersections[GRID_SIZE + 1].lights, "EW")
    /\ \E k \in 1 .. Len(vehicles) :
          /\ ~vehicles[k].isEmergency /\ ~vehicles[k].stopped
          /\ vehicles[k].waitTime > 0
          /\ vehicles[k].x = (CELL_SIZE + LANE_WIDTH - 6 + 4) * PX
          /\ GridCell(vehicles[k]) = Cell(1, 1)

\* ------------------------------------------------------------------------
\* Specification of pause and resume: the run button pressed up to
\* MaxPauseToggles times, the commands given while running or paused
\* ------------------------------------------------------------------------
PauseDraws == {<<2, 0, BIKE, 4>>}

TickPause == simulationTick < MaxTickPause /\ Tick(PauseDraws)

TogglePause ==
    /\ runToggles < MaxPauseToggles
    /\ runToggles' = runToggles + 1
    /\ handleToggleRun

NextPause == TogglePause \/ TickPause \/ CmdManual \/ CmdAuto \/ CmdEmergency

SpecPause == InitProgram /\ [][NextPause]_vars

\* C15: while isRunning is FALSE no step is a tick: the tick counter, the
\* throughput counter, the collision and jam data stay as they are, the
\* intersections change only by setLightStateManually or returnToAuto and
\* the vehicles only by toggleEmergency; the run button changes neither the
\* tick counter nor an intersection nor a vehicle, so a resumed run goes on
\* from the state the pause left.
C15_PausedFrame ==
    [][/\ IsTick => isRunning
       /\ ~isRunning =>
            /\ UNCHANGED <<simulationTick, vehicleThroughput, vehicleIdCounter,
                           collidedPairs, jammedSegments, previousJams>>
            /\ intersections' # intersections =>
                  \E i \in IntersectionIds :
                     \/ ReturnToAuto(i)
                     \/ \E d \in {"NS", "EW"} : SetLightStateManually(i, d)
            /\ vehicles' # vehicles => ToggleEmergency
       /\ isRunning' # isRunning =>
            UNCHANGED <<simulationTick, intersections, vehicles, stats, vehicleThroughput,
                        vehicleIdCounter, collidedPairs, jammedSegments, previousJams,
                        weather>>]_vars

\* a run that was paused after some ticks, given a manual override during
\* the pause, and resumed
C15_Witness ==
    /\ isRunning /\ runToggles = 3 /\ simulationTick > 0
    /\ Len(logs) >= 3
    /\ logs[1].message = "Simulation Started."
    /\ logs[2].type = "warning"
    /\ logs[3].message = "Simulation Paused."
    /\ \E i \in IntersectionIds : intersections[i].manualOverride

\* ------------------------------------------------------------------------
\* Specification of the light commands with any intersection id: ids below
\* and above the grid besides an id of the grid
\* ------------------------------------------------------------------------
AnyIds == {-1, GRID_SIZE + 1, GRID_SIZE * GRID_SIZE}

CmdManualAny ==
    /\ cmds < MaxCmds /\ cmds' = cmds + 1
    /\ \E id \in AnyIds, direction \in {"NS", "EW"} : SetLightStateManually(id, direction)

CmdAutoAny ==
    /\ cmds < MaxCmds /\ cmds' = cmds + 1
    /\ \E id \in AnyIds : ReturnToAuto(id)

NextIds == ToggleRun \/ TickPause \/ CmdManualAny \/ CmdAutoAny

SpecIds == InitProgram /\ [][NextIds]_vars

\* C16: setLightStateManually and returnToAuto with an id that no
\* intersection has leave every intersection and every vehicle as they are
\* and add one entry to the log.
C16_UnknownIdNoOp ==
    [][\A id \in AnyIds \ IntersectionIds :
        ((\E d \in {"NS", "EW"} : SetLightStateManually(id, d)) \/ ReturnToAuto(id))
        => /\ intersections' = intersections
           /\ vehicles' = vehicles
           /\ Len(logs') = Len(logs) + 1
           /\ UNCHANGED <<isRunning, weather, stats, simulationTick, vehicleThroughput,
                          jammedSegments>>]_vars

\* the latest command named intersection id 9 while intersection 4 was under
\* manual override and the simulation had run
C16_Witness ==
    /\ Len(logs) > 0
    /\ Head(logs).a = GRID_SIZE * GRID_SIZE + 1
    /\ Head(logs).type = "warning"
    /\ intersections[GRID_SIZE + 1].manualOverride
    /\ \A i \in IntersectionIds \ {GRID_SIZE + 1} : ~intersections[i].manualOverride
    /\ simulationTick > 0

\* ------------------------------------------------------------------------
\* Specification of the population near the cap.  With every spawn drawn as
\* a bike of speed 4 on the eastbound lane of row 0 no vehicle ever leaves:
\* vehicle 0 waits before intersection 0 from tick 17 on, vehicles 1 to 4
\* close up behind it at 16 pixels each, and every later vehicle stays on the
\* spawn point.  QueueState(n) is the state of that run when simulationTick
\* is n spawn intervals, right before the spawn event that finds n vehicles.
\* ------------------------------------------------------------------------
SpawnPeriod == SPAWN_INTERVAL_S * TICKS_PER_SECOND

\* the tick from which vehicle k waits
QueueStopStart(k) == IF k <= 4 THEN 17 + 46 * k ELSE SpawnPeriod * k + 1

\* the first id of a vehicle on the spawn point, and the pairs the collision
\* pass matches among n vehicles
PileStart == 4
QueuePairs(n) == [j \in 1 .. (n - PileStart) \div 2 |->
                    <<PileStart + 2 * (j - 1), PileStart + 2 * (j - 1) + 1>>]

\* vehicle k of the queue when simulationTick is t
QueueVehicle(k, n, t) ==
    [Vehicle(k, BIKE, (IF k <= PileStart THEN 44 - 16 * k ELSE -SPAWN_OFFSET) * PX,
             (INTERSECTION_SIZE \div 2 - LANE_WIDTH \div 2) * PX, "E", 4)
        EXCEPT !.stopped = TRUE,
               !.waitTime = t - QueueStopStart(k),
               !.collisionTimestamp = IF k \in Matched(QueuePairs(n)) THEN Some(t - 1)
                                      ELSE None]

QueueAt(n, t) == [j \in 1 .. n |-> QueueVehicle(j - 1, n, t)]

\* the sample that updateStats appends when the counter reaches time
QueueSample(time) ==
    LET t == time - 1
        live == (t - 1) \div SpawnPeriod + 1
        waits == [j \in 1 .. live |-> [waitTime |-> Max(0, t - QueueStopStart(j - 1))]]
    IN  [time |-> time, wait |-> [num |-> SumWait(waits), den |-> live * TICKS_PER_SECOND]]

QueueStats(n) ==
    LET t == SpawnPeriod * n
        vs == QueueAt(n, t - 1)
        noisy == CHOOSE c \in NoisyChoices(vs, "Clear") : TRUE
    IN  [updateStats(InitialStats, vs, t, "Clear", 0, noisy)
            EXCEPT !.historicalWaitTime =
                      [j \in 1 .. HISTORY_LIMIT |->
                          QueueSample(t - TICKS_PER_SECOND * (HISTORY_LIMIT - j))]]

\* the lights after t >= 25 ticks of the automatic cycle
QueueLights(i, t) ==
    IF i % 2 = 0
    THEN <<Light(YELLOW, 25 - t), Light(YELLOW, 25 - t),
           Light(YELLOW, YELLOW_LIGHT_DURATION), Light(YELLOW, YELLOW_LIGHT_DURATION)>>
    ELSE <<Light(RED, 20 - t), Light(RED, 20 - t),
           Light(YELLOW, YELLOW_LIGHT_DURATION), Light(YELLOW, YELLOW_LIGHT_DURATION)>>

QueueLogs(n) ==
    LET pairs == QueuePairs(n)
        p == Len(pairs)
    IN  [j \in 1 .. LOG_LIMIT |->
            Entry("Collision detected", pairs[p - ((j - 1) % p)][1],
                  pairs[p - ((j - 1) % p)][2], "warning")]

QueueState(n) ==
    /\ isRunning = TRUE
    /\ weather = "Clear"
    /\ logs = QueueLogs(n)
    /\ jammedSegments = <<>>
    /\ intersections = [i \in IntersectionIds |->
                           [InitialIntersections[i] EXCEPT
                               !.lights = QueueLights(i, SpawnPeriod * n)]]
    /\ vehicles = QueueAt(n, SpawnPeriod * n)
    /\ stats = QueueStats(n)
    /\ simulationTick = SpawnPeriod * n
    /\ vehicleIdCounter = n
    /\ vehicleThroughput = 0
    /\ previousJams = <<>>
    /\ collidedPairs = QueuePairs(n)
    /\ fp = FpIdle
    /\ cmds = 0
    /\ runToggles = 1

QueueSizes == (VEHICLE_CAP - MaxQueueShort) .. VEHICLE_CAP

InitQueue == \E n \in QueueSizes : QueueState(n)

\* spawnVehicle (lines 182-227) on the vehicle list of the last render
spawnVehicle(vs, id, d) ==
    IF Len(vs) > VEHICLE_CAP THEN vs
    ELSE Append(vs, SpawnedVehicle(id, d[1], d[2], d[3], d[4]))

SpawnDraws == {<<edge, position, BIKE, 4>> : edge \in 0 .. 3, position \in 0 .. GRID_SIZE - 1}

\* one spawn event of the interval callback
SpawnEvent ==
    /\ cmds < MaxSpawnEvents
    /\ cmds' = cmds + 1
    /\ \E d \in SpawnDraws : vehicles' = spawnVehicle(vehicles, vehicleIdCounter, d)
    /\ vehicleIdCounter' = vehicleIdCounter + (Len(vehicles') - Len(vehicles))
    /\ UNCHANGED <<isRunning, weather, logs, jammedSegments, intersections, stats,
                   simulationTick, vehicleThroughput, previousJams, collidedPairs, fp,
                   runToggles>>

NextSpawn == SpawnEvent

SpecSpawn == InitQueue /\ [][NextSpawn]_vars

\* C17: in every reachable state at most VEHICLE_CAP vehicles are live.
C17_PopulationCap == Len(vehicles) <= VEHICLE_CAP

\* the run of the program that builds the queue, up to MaxTickCap ticks
CapDraws == {<<2, 0, BIKE, 4>>}

TickCap == simulationTick < MaxTickCap /\ Tick(CapDraws)

NextCap == ToggleRun \/ TickCap

SpecCap == InitProgram /\ [][NextCap]_vars

\* the run reaches the queue states: checked under SpecCap
QueueMatchesRun ==
    (simulationTick > 0 /\ simulationTick % SpawnPeriod = 0
        /\ simulationTick \div SpawnPeriod >= 10)
    => QueueState(simulationTick \div SpawnPeriod)

\* C18: an activation of emergency mode on a non-empty vehicle list changes
\* at most the selected vehicle, and either findPath found a route and the
\* vehicle becomes emergency with the mirrored cell as destination and a path
\* from its cell to that destination, or findPath found none and the vehicle
\* stays as it was while one warning entry is logged.
C18_ActivationOutcome ==
    [][(IsActivation /\ Len(vehicles) > 0) =>
        /\ Len(vehicles') = Len(vehicles)
        /\ \E k \in 1 .. Len(vehicles) :
              LET v == vehicles[k]
                  n == vehicles'[k]
                  start == GridCell(v)
                  dest == Cell(GRID_SIZE - 1 - start.gridX, GRID_SIZE - 1 - start.gridY)
                  routed == /\ findPath(start, dest) # <<>>
                            /\ n.isEmergency
                            /\ n.destination = Some(dest)
                            /\ IsSome(n.path)
                            /\ Head(Val(n.path)) = start
                            /\ Val(n.path)[Len(Val(n.path))] = dest
                            /\ [n EXCEPT !.isEmergency = FALSE, !.destination = None,
                                         !.path = None] = v
                            /\ Len(SelectSeq(logs', LAMBDA e : e.type = "warning"))
                                  = Len(SelectSeq(logs, LAMBDA e : e.type = "warning"))
                  failed == /\ findPath(start, dest) = <<>>
                            /\ n = v
                            /\ ~n.isEmergency /\ n.path = None /\ n.destination = None
                            /\ Head(logs') = Entry("Could not calculate route for vehicle",
                                                   v.id, -1, "warning")
                            /\ Len(SelectSeq(logs', LAMBDA e : e.type = "warning"))
                                  = Len(SelectSeq(logs, LAMBDA e : e.type = "warning")) + 1
              IN  /\ \A j \in 1 .. Len(vehicles) : j # k => vehicles'[j] = vehicles[j]
                  /\ (routed /\ ~failed) \/ (failed /\ ~routed)]_vars

\* emergency mode was switched on for the vehicle waiting in the centre cell,
\* no route was found, and neither of the two vehicles is marked
C18_Witness ==
    /\ stats.emergencyActive
    /\ Len(vehicles) = 2
    /\ Len(logs) > 0
    /\ Head(logs) = Entry("Could not calculate route for vehicle", vehicles[1].id, -1, "warning")
    /\ GridCell(vehicles[1]) = Cell(1, 1)
    /\ \A k \in 1 .. Len(vehicles) : ~vehicles[k].isEmergency /\ vehicles[k].path = None

\* ------------------------------------------------------------------------
\* Specification of the emergency route: vehicles entering on the southbound
\* lane of column 0, emergency mode switched on at any moment
\* ------------------------------------------------------------------------
NextRoute == ToggleRun \/ TickSouth \/ EmergencyOn

SpecRoute == InitProgram /\ [][NextRoute]_vars

\* the emergency vehicles of the list that carry a path
Routed == SelectSeq(vehicles, LAMBDA v : v.isEmergency /\ IsSome(v.path))

\* the positions in the path of ev of the at most two cells that follow the
\* cell ev is in; none when that cell is not on the path
NextOnPath(ev) ==
    LET path == Val(ev.path)
        at == {k \in 1 .. Len(path) : path[k] = GridCell(ev)}
    IN  IF at = {} THEN {}
        ELSE LET k0 == CHOOSE k \in at : \A o \in at : k <= o
             IN  {k \in 1 .. Len(path) : k > k0 /\ k <= k0 + 2}

\* C19: after a tick that finds an emergency vehicle with a path, exactly the
\* at most two path cells that follow the vehicle's grid cell carry an
\* emergency override, each for the heading of the path step that enters it;
\* after a tick that finds no such vehicle no intersection carries one.
C19_OverridesFollowPath ==
    [][IsTick =>
        IF Len(Routed) = 0
        THEN \A i \in IntersectionIds : intersections'[i].emergencyOverrideFor = NoDir
        ELSE LET ev == Routed[1]
                 path == Val(ev.path)
                 next == NextOnPath(ev)
             IN  /\ \A i \in IntersectionIds :
                       intersections'[i].emergencyOverrideFor # NoDir
                       <=> \E k \in next : path[k].gridY * GRID_SIZE + path[k].gridX = i
                 /\ \A k \in next :
                       intersections'[path[k].gridY * GRID_SIZE + path[k].gridX]
                             .emergencyOverrideFor
                          = StepDir(path[k].gridX - path[k - 1].gridX,
                                    path[k].gridY - path[k - 1].gridY, ev.direction)
                 /\ Cardinality({i \in IntersectionIds :
                                    intersections'[i].emergencyOverrideFor # NoDir}) <= 2]_vars

\* C20: a tick that leaves a not manually overridden intersection with an
\* emergency override for heading d leaves the axis of d Green, the other
\* axis Red and the four timers as they were; the tick that removes the
\* override takes one step of the automatic cycle from the forced states and
\* the kept timers: the timer counts down by one, and when it runs out the
\* Green axis turns Yellow.
C20_OverrideHoldsLights ==
    [][IsTick =>
        \A i \in IntersectionIds :
            LET a == intersections[i]
                b == intersections'[i]
                t0 == a.lights[1].timer - 1
            IN  /\ (~a.manualOverride /\ b.emergencyOverrideFor # NoDir)
                   => /\ ShowsAxis(b.lights, AxisOf(b.emergencyOverrideFor))
                      /\ Timers(b.lights) = Timers(a.lights)
                /\ (/\ ~a.manualOverride
                    /\ a.emergencyOverrideFor # NoDir
                    /\ b.emergencyOverrideFor = NoDir
                    /\ ShowsAxis(a.lights, AxisOf(a.emergencyOverrideFor)))
                   => IF t0 > 0
                      THEN /\ States(b.lights) = States(a.lights)
                           /\ \A k \in 1 .. 4 : b.lights[k].timer = t0
                      ELSE LET green == IF a.lights[1].state = GREEN THEN {1, 2} ELSE {3, 4}
                           IN  \A k \in 1 .. 4 :
                                  b.lights[k] = IF k \in green
                                                THEN Light(YELLOW, YELLOW_LIGHT_DURATION)
                                                ELSE Light(RED, t0)]_vars

\* intersection 1 is held at EW Green for the emergency vehicle while
\* intersection 2, whose override was removed, has resumed the cycle from
\* EW Green
C20_Witness ==
    /\ Len(Routed) > 0
    /\ intersections[1].emergencyOverrideFor = "E"
    /\ ShowsAxis(intersections[1].lights, "EW")
    /\ intersections[2].emergencyOverrideFor = NoDir
    /\ ~intersections[2].manualOverride
    /\ Phase(intersections[2].lights) \in {"EW_GREEN", "EW_YELLOW"}

\* ------------------------------------------------------------------------
\* A run to the far edge: the row-0 eastbound lane, emergency mode switched
\* on early, so that the first vehicle crosses the grid and leaves it
\* ------------------------------------------------------------------------
ExitDraws == {<<2, 0, BIKE, 4>>}

TickExit == simulationTick < MaxTickExit /\ Tick(ExitDraws)

EmergencyEarly == simulationTick <= MaxActivateTick /\ EmergencyOn

NextExit == ToggleRun \/ TickExit \/ EmergencyEarly

SpecExit == InitProgram /\ [][NextExit]_vars

\* the 1-based place of the vehicle's grid cell in its path, 0 when absent
PlaceOnPath(ev) == findIndex(Val(ev.path), GridCell(ev)) + 1

\* C21: an emergency vehicle follows its path cell by cell: a tick that takes
\* it out of a cell of its path that has a successor takes it into that
\* successor, so where the path turns the vehicle turns.
C21_FollowsPath ==
    [][IsTick =>
        \A k \in 1 .. Len(vehicles) :
            LET ev == vehicles[k]
            IN  (/\ ev.isEmergency /\ IsSome(ev.path)
                 /\ PlaceOnPath(ev) >= 1 /\ PlaceOnPath(ev) < Len(Val(ev.path))
                 /\ After(ev) # <<>>
                 /\ GridCell(After(ev)[1]) # GridCell(ev))
                => GridCell(After(ev)[1]) = Val(ev.path)[PlaceOnPath(ev) + 1]]_vars

\* ------------------------------------------------------------------------
\* Properties of the vehicle-ahead rule
\* ------------------------------------------------------------------------
SafetyDistance(v) == IF v.type = BUS THEN SAFETY_DISTANCE_BUS ELSE SAFETY_DISTANCE

\* o is strictly further along the heading of v
FurtherAlong(v, o) ==
    \/ v.direction = "N" /\ o.y < v.y
    \/ v.direction = "S" /\ o.y > v.y
    \/ v.direction = "E" /\ o.x > v.x
    \/ v.direction = "W" /\ o.x < v.x

\* another vehicle of the list with the heading of v lies ahead of v, closer
\* than the safety distance of v
SameHeadingAhead(v) ==
    \E j \in 1 .. Len(vehicles) :
        /\ vehicles[j].id # v.id
        /\ vehicles[j].direction = v.direction
        /\ FurtherAlong(v, vehicles[j])
        /\ Closer(v.x, v.y, vehicles[j].x, vehicles[j].y, SafetyDistance(v))

Held(v) == After(v) # <<>> /\ After(v)[1].x = v.x /\ After(v)[1].y = v.y /\ After(v)[1].stopped

\* C22: an emergency vehicle is exempt from the signals only: in a tick that
\* finds another vehicle ahead of it within its safety distance it is stopped
\* and keeps its position.
C22_EmergencyYieldsAhead ==
    [][IsTick =>
        \A k \in 1 .. Len(vehicles) :
            (vehicles[k].isEmergency /\ SameHeadingAhead(vehicles[k])) => Held(vehicles[k])]_vars

\* ------------------------------------------------------------------------
\* Crossing traffic: the column-0 southbound lane and the row-0 eastbound
\* lane meet in intersection 0, which the operator may set to EW
\* ------------------------------------------------------------------------
CrossDraws == {<<0, 0, CAR, 3>>, <<2, 0, BIKE, 4>>}

TickCross == simulationTick < MaxTickCross /\ Tick(CrossDraws)

CmdCross ==
    /\ cmds < MaxCmds /\ cmds' = cmds + 1
    /\ SetLightStateManually(0, "EW")

NextCross == ToggleRun \/ TickCross \/ CmdCross

SpecCross == InitProgram /\ [][NextCross]_vars

\* v is in an approach zone and the light it faces after the light advance of
\* the tick is red or yellow
SignalHeld(v) ==
    Approaching(v) /\ Facing(v, intersections').state \in {RED, YELLOW}

\* C23: a non-emergency vehicle that no signal holds is stopped in a tick
\* exactly when another vehicle with the same heading lies strictly further
\* along that heading, on the positions before the move, closer than its
\* safety distance (30 for a bus, 20 otherwise); a vehicle with another
\* heading never stops it.
C23_StoppedIffSameHeadingAhead ==
    [][IsTick =>
        \A k \in 1 .. Len(vehicles) :
            LET v == vehicles[k]
            IN  (~v.isEmergency /\ ~SignalHeld(v) /\ After(v) # <<>>)
                => (Held(v) <=> SameHeadingAhead(v))]_vars

\* ------------------------------------------------------------------------
\* Properties of the signal rule
\* ------------------------------------------------------------------------
\* C24: no non-emergency vehicle runs a red or yellow light: a tick that finds
\* the vehicle inside the grid, in the approach zone of its heading, facing a
\* light that the tick's light advance leaves red or yellow, leaves its
\* position as it was and adds one to its waitTime.
C24_NoRunningRedOrYellow ==
    [][IsTick =>
        \A k \in 1 .. Len(vehicles) :
            LET v == vehicles[k]
            IN  (~v.isEmergency /\ SignalHeld(v))
                => /\ After(v) # <<>>
                   /\ After(v)[1].x = v.x /\ After(v)[1].y = v.y
                   /\ After(v)[1].waitTime = v.waitTime + 1]_vars

\* emergency mode is on and a non-emergency vehicle has waited, longer than a
\* yellow phase lasts, at a light that is now yellow
C24_Witness ==
    /\ \E k \in 1 .. Len(vehicles) :
          /\ ~vehicles[k].isEmergency /\ Approaching(vehicles[k])
          /\ Facing(vehicles[k], intersections).state = YELLOW
          /\ vehicles[k].stopped /\ vehicles[k].waitTime > YELLOW_LIGHT_DURATION
    /\ stats.emergencyActive

\* ------------------------------------------------------------------------
\* Properties of the light timers
\* ------------------------------------------------------------------------
TimersInRange(a) ==
    a.manualOverride \/ \A k \in 1 .. 4 : a.lights[k].timer \in 0 .. INITIAL_LIGHT_DURATION

\* C25: every light timer of an intersection that is not manually overridden
\* lies between 0 and INITIAL_LIGHT_DURATION in every reachable state: it is
\* never negative, and a timer that is 0 before a tick is not 0 after it.
C25_TimerRange ==
    [][\A i \in IntersectionIds :
        /\ TimersInRange(intersections[i]) /\ TimersInRange(intersections'[i])
        /\ (IsTick /\ ~intersections[i].manualOverride /\ ~intersections'[i].manualOverride)
           => \A k \in 1 .. 4 :
                 intersections[i].lights[k].timer = 0 => intersections'[i].lights[k].timer # 0]_vars

\* ------------------------------------------------------------------------
\* Emergency mode switched on and off while vehicles enter on the row-0
\* eastbound lane
\* ------------------------------------------------------------------------
ToggleDraws == {<<2, 0, BIKE, 4>>}

TickToggle == simulationTick < MaxTickToggle /\ Tick(ToggleDraws)

\* the operator uses the switch once a second vehicle is on the road
CmdToggle ==
    /\ cmds < MaxToggles /\ cmds' = cmds + 1
    /\ Len(vehicles) >= 2
    /\ ToggleEmergency

NextToggle == ToggleRun \/ TickToggle \/ CmdToggle

SpecToggle == InitProgram /\ [][NextToggle]_vars

EmergencyVehicles == {k \in 1 .. Len(vehicles) : vehicles[k].isEmergency}

\* C26: in every reachable state at most one live vehicle is an emergency
\* vehicle, and a vehicle carries a path or a destination only if it is that
\* emergency vehicle.
C26_SingleEmergency ==
    /\ Cardinality(EmergencyVehicles) <= 1
    /\ \A k \in 1 .. Len(vehicles) :
          (IsSome(vehicles[k].path) \/ IsSome(vehicles[k].destination))
          => vehicles[k].isEmergency

\* emergency mode switched on, off and on again: of two live vehicles the
\* second is the emergency vehicle with a path and the first, which has
\* driven past the light it first waited at, carries none
C26_Witness ==
    /\ cmds = MaxToggles
    /\ Len(vehicles) = 2
    /\ vehicles[2].isEmergency /\ IsSome(vehicles[2].path) /\ IsSome(vehicles[2].destination)
    /\ ~vehicles[1].isEmergency /\ vehicles[1].path = None /\ vehicles[1].destination = None
    /\ vehicles[1].x > (CELL_SIZE - INTERSECTION_SIZE - LANE_WIDTH) * PX

\* ------------------------------------------------------------------------
\* Properties of the activation inside the grid
\* ------------------------------------------------------------------------
\* the newest log entry reports the routing outcome for vehicle v
Warned(v) == Head(logs') = Entry("Could not calculate route for vehicle", v.id, -1, "warning")
RouteLogged(v) == Head(logs') = Entry("Route calculated for emergency vehicle", v.id, -1,
                                      "emergency")

MirroredCell(c) == Cell(GRID_SIZE - 1 - c.gridX, GRID_SIZE - 1 - c.gridY)

\* C27: routing does not fail inside the grid: an activation of emergency mode
\* that finds vehicles and no emergency vehicle, and selects a vehicle lying
\* in a grid cell, marks that vehicle emergency with a route that ends in the
\* diagonally opposite cell and logs no 'Could not calculate route' warning.
C27_NoRoutingFailureInGrid ==
    [][(IsActivation /\ Len(vehicles) > 0 /\ EmergencyVehicles = {}) =>
        \A k \in 1 .. Len(vehicles) :
            LET v == vehicles[k]
                n == vehicles'[k]
            IN  InGrid(GridCell(v)) =>
                   /\ ~Warned(v)
                   /\ RouteLogged(v) =>
                         /\ n.isEmergency
                         /\ n.destination = Some(MirroredCell(GridCell(v)))
                         /\ Val(n.path)[Len(Val(n.path))] = MirroredCell(GridCell(v))]_vars

\* ------------------------------------------------------------------------
\* Properties of the collision pairs
\* ------------------------------------------------------------------------
CollisionEntries(pairs) ==
    [k \in 1 .. Len(pairs) |->
        Entry("Collision detected", pairs[k][1], pairs[k][2], "warning")]

\* C28: the pairs matched in one tick are pairwise disjoint, each of two
\* different vehicles, and the tick adds to the log exactly one warning entry
\* per matched pair, in the order the pairs were found (stated for the ticks
\* that leave the jam set of the last check as it was, which add no other
\* entry).
C28_DisjointPairs ==
    [][IsTick =>
        /\ \A a \in 1 .. Len(collidedPairs') :
              /\ collidedPairs'[a][1] # collidedPairs'[a][2]
              /\ \A b \in 1 .. Len(collidedPairs') :
                    a # b => {collidedPairs'[a][1], collidedPairs'[a][2]}
                                \cap {collidedPairs'[b][1], collidedPairs'[b][2]} = {}
        /\ previousJams' = previousJams
           => logs' = addLogs(logs, CollisionEntries(collidedPairs'))]_vars

\* two pairs are matched and a further vehicle that went through the scan
\* lies within the threshold of a matched one and is in no pair
C28_Witness ==
    /\ Len(collidedPairs) = 2
    /\ \E u \in 1 .. Len(vehicles), m \in 1 .. Len(vehicles) :
          /\ vehicles[u].waitTime > 0
          /\ vehicles[u].id \notin Matched(collidedPairs)
          /\ vehicles[m].id \in Matched(collidedPairs)
          /\ Closer(vehicles[u].x, vehicles[u].y, vehicles[m].x, vehicles[m].y,
                    COLLISION_THRESHOLD)

\* ------------------------------------------------------------------------
\* Consecutive jam checks: three vehicles stand in segment H-0-1 and three in
\* segment V-0-0; between two checks the vehicles of a segment come to a
\* halt or get going, and each check reads the list it finds
\* ------------------------------------------------------------------------
SceneSpots == <<1, 2, 3, 6, 7, 8>>

JamScene(h, v) ==
    [k \in 1 .. Len(SceneSpots) |->
        JamVehicle(k - 1, JamSpots[SceneSpots[k]], IF k <= JAM_VEHICLE_THRESHOLD THEN h ELSE v)]

JamScenes == {JamScene(h, v) : h \in BOOLEAN, v \in BOOLEAN}

InitJamSeq ==
    /\ isRunning = FALSE
    /\ weather = "Clear"
    /\ logs = <<>>
    /\ jammedSegments = <<>>
    /\ intersections = InitialIntersections
    /\ stats = InitialStats
    /\ simulationTick = 0
    /\ vehicleThroughput = 0
    /\ previousJams = <<>>
    /\ collidedPairs = <<>>
    /\ fp = FpIdle
    /\ cmds = 0
    /\ runToggles = 0
    /\ vehicles \in JamScenes
    /\ vehicleIdCounter = Len(vehicles)

\* one call of detectJams on the vehicle list the check finds
JamCheckSeq ==
    /\ cmds < MaxJamSeq
    /\ \E vs \in JamScenes :
          LET jam == detectJams(vs, previousJams)
          IN  /\ vehicles' = vs
              /\ jammedSegments' = jam.jams
              /\ previousJams' = jam.jams
              /\ logs' = addLogs(logs, jam.entries)
    /\ cmds' = cmds + 1
    /\ UNCHANGED <<isRunning, weather, intersections, stats, simulationTick,
                   vehicleIdCounter, vehicleThroughput, collidedPairs, fp, runToggles>>

NextJamSeq == JamCheckSeq

SpecJamSeq == InitJamSeq /\ [][NextJamSeq]_vars

InList(seg, list) == \E k \in 1 .. Len(list) : list[k] = seg

\* the jam rule on the vehicle list after the step
JammedNow(seg) ==
    LET occ == {k \in 1 .. Len(vehicles') : InSegment(vehicles'[k], seg)}
        st == {k \in occ : vehicles'[k].stopped}
    IN  /\ Cardinality(occ) >= JAM_VEHICLE_THRESHOLD
        /\ Cardinality(st) * 100 >= JAM_STOPPED_RATIO_PERCENT * Cardinality(occ)

JamEntry(seg) == Entry("High congestion detected in segment " \o seg.kind, seg.i, seg.j, "warning")

\* C29: a jam check reports exactly the segments that the vehicles of the
\* check jam, whatever the earlier checks reported, and adds to the log one
\* entry for each reported segment that the preceding check did not report
\* and nothing else; so a segment that stays jammed adds nothing and one that
\* left the jam set and re-enters adds an entry again.
C29_NewJamsLogged ==
    [][cmds' = cmds + 1 =>
        /\ \A k \in 1 .. Len(Segments) :
              InList(Segments[k], jammedSegments') <=> JammedNow(Segments[k])
        /\ previousJams' = jammedSegments'
        /\ LET fresh == SelectSeq(Segments, LAMBDA seg : /\ InList(seg, jammedSegments')
                                                        /\ ~InList(seg, previousJams))
           IN  /\ Len(logs') = Len(logs) + Len(fresh)
               /\ \A k \in 1 .. Len(fresh) : logs'[Len(fresh) + 1 - k] = JamEntry(fresh[k])
               /\ \A k \in 1 .. Len(logs) : logs'[Len(fresh) + k] = logs[k]]_vars

\* segment V-0-0 was reported by every check and logged once; segment H-0-1
\* was reported, dropped and reported again, and logged twice
C29_Witness ==
    /\ cmds = 3
    /\ InList(Segment("H", 0, 1), jammedSegments) /\ InList(Segment("V", 0, 0), jammedSegments)
    /\ logs = <<JamEntry(Segment("H", 0, 1)), JamEntry(Segment("V", 0, 0)),
                JamEntry(Segment("H", 0, 1))>>

\* ------------------------------------------------------------------------
\* Properties of the removal at the edge
\* ------------------------------------------------------------------------
\* strictly inside the extended bounds -50 < x < 650, -50 < y < 650
Inside(v) ==
    /\ -EXIT_MARGIN * PX < v.x /\ v.x < (GRID_SIZE * CELL_SIZE + EXIT_MARGIN) * PX
    /\ -EXIT_MARGIN * PX < v.y /\ v.y < (GRID_SIZE * CELL_SIZE + EXIT_MARGIN) * PX

\* the places in the list of the vehicles that the step removes
Removed == {k \in 1 .. Len(vehicles) : After(vehicles[k]) = <<>>}

\* C30: a tick removes a vehicle exactly when its position after the move is
\* not strictly inside the extended bounds, and adds the number of removed
\* vehicles to the throughput; so after every tick all live vehicles are
\* inside the bounds, the throughput never decreases, and the number of ids
\* issued is the number of live vehicles plus the throughput.
C30_RemovalAndThroughput ==
    [][/\ IsTick =>
          /\ \A k \in 1 .. Len(vehicles) :
                k \in Removed <=>
                   ~Inside(MoveOne(vehicles[k], vehicles, intersections', simulationTick,
                                   weather))
          /\ vehicleThroughput' = vehicleThroughput + Cardinality(Removed)
          /\ \A k \in 1 .. Len(vehicles') : Inside(vehicles'[k])
       /\ vehicleThroughput' >= vehicleThroughput
       /\ vehicleIdCounter = Len(vehicles) + vehicleThroughput
       /\ vehicleIdCounter' = Len(vehicles') + vehicleThroughput']_vars

\* the emergency vehicle has left over the east edge and three vehicles that
\* entered after it are on the road
C30_Witness ==
    /\ vehicleThroughput = 1
    /\ Len(vehicles) = 3
    /\ vehicleIdCounter = 4
    /\ \A k \in 1 .. Len(vehicles) : vehicles[k].id # 0 /\ ~vehicles[k].isEmergency
    /\ stats.emergencyActive

\* ------------------------------------------------------------------------
\* Changing weather: bikes and cars enter on the row-0 eastbound lane while
\* the operator changes the weather
\* ------------------------------------------------------------------------
Weathers == {"Clear", "Rain", "Fog"}

WeatherDraws == {<<2, 0, BIKE, 4>>, <<2, 0, CAR, 2>>}

TickWeather == simulationTick < MaxTickWeather /\ Tick(WeatherDraws)

CmdWeather ==
    /\ cmds < MaxWeatherCmds /\ cmds' = cmds + 1
    /\ \E w \in Weathers : SetWeather(w)

NextWeather == ToggleRun \/ TickWeather \/ CmdWeather

SpecWeather == InitProgram /\ [][NextWeather]_vars

\* tenths of a pixel a vehicle of speed 1 covers in a tick: Clear 1.0, Rain
\* 0.5 for a bike and 0.7 otherwise, Fog 0.3 for a bike and 0.4 otherwise
StepTenths(w, type) ==
    IF w = "Rain" THEN (IF type = BIKE THEN 5 ELSE 7)
    ELSE IF w = "Fog" THEN (IF type = BIKE THEN 3 ELSE 4)
    ELSE 10

\* n is v moved by d along the heading of n, the other coordinate fixed
Advanced(v, n, d) ==
    \/ n.direction = "N" /\ n.y = v.y - d /\ n.x = v.x
    \/ n.direction = "S" /\ n.y = v.y + d /\ n.x = v.x
    \/ n.direction = "E" /\ n.x = v.x + d /\ n.y = v.y
    \/ n.direction = "W" /\ n.x = v.x - d /\ n.y = v.y

\* the orders the vehicle list can stand in
ListOrders ==
    {p \in [1 .. Len(vehicles) -> 1 .. Len(vehicles)] :
        \A a, b \in 1 .. Len(vehicles) : a # b => p[a] # p[b]}

\* C31: the movement pass of a tick does to every vehicle exactly one of two
\* things: the vehicle is stopped, keeps its position and its waitTime grows
\* by 1; or it moves, keeps its waitTime and advances along its heading by
\* its speed times the weather multiplier, the other coordinate fixed (the
\* stopped flag of a moved vehicle is set only by the collision pass that
\* follows). The stop decisions read the positions before the move: the pass
\* gives the vehicle the same result for every order of the vehicle list.
C31_MovePass ==
    [][IsTick =>
        \A k \in 1 .. Len(vehicles) :
            LET v == vehicles[k]
                n == After(v)[1]
                d == v.speed * StepTenths(weather, v.type)
            IN  After(v) # <<>> =>
                   /\ \/ /\ n.stopped /\ n.x = v.x /\ n.y = v.y
                         /\ n.waitTime = v.waitTime + 1
                      \/ /\ Advanced(v, n, d) /\ n.waitTime = v.waitTime
                         /\ n.stopped => n.id \in Matched(collidedPairs')
                   /\ \A p \in ListOrders :
                         LET m == MoveOne(v, [a \in 1 .. Len(vehicles) |-> vehicles[p[a]]],
                                          intersections', simulationTick, weather)
                         IN  m.x = n.x /\ m.y = n.y /\ m.waitTime = n.waitTime]_vars

\* in rain or fog a moving vehicle stands between whole pixels behind a
\* vehicle that has waited
C31_Witness ==
    /\ weather # "Clear"
    /\ Len(vehicles) = 2
    /\ vehicles[1].stopped /\ vehicles[1].waitTime > 0
    /\ ~vehicles[2].stopped /\ vehicles[2].x % PX # 0 /\ vehicles[2].x > -SPAWN_OFFSET * PX

\* ------------------------------------------------------------------------
\* Properties of the vehicle ids
\* ------------------------------------------------------------------------
\* the ids of the vehicles of a list
Ids(vs) == {vs[k].id : k \in 1 .. Len(vs)}

\* C32: vehicle ids are unique and monotonic: the live vehicles stand in the
\* list in strictly increasing id order, every id in use lies below the
\* counter of issued ids, the counter never decreases, and a vehicle that a
\* step adds has an id that is at least the counter before the step, so
\* greater than every id issued before, those of removed vehicles included.
C32_UniqueMonotonicIds ==
    [][/\ \A a, b \in 1 .. Len(vehicles') : a < b => vehicles'[a].id < vehicles'[b].id
       /\ \A k \in 1 .. Len(vehicles') : vehicles'[k].id < vehicleIdCounter'
       /\ vehicleIdCounter' >= vehicleIdCounter
       /\ \A id \in Ids(vehicles') \ Ids(vehicles) : id >= vehicleIdCounter]_vars

\* vehicle 0 has left the grid and the vehicle spawned after that has the
\* fifth id
C32_Witness ==
    /\ vehicleThroughput = 1
    /\ Len(vehicles) = 4
    /\ Ids(vehicles) = 1 .. 4
    /\ vehicleIdCounter = 5

====
